---- MODULE Spec2Model ----
(***************************************************************************)
(* Model of the article-production system: the Revision Controller         *)
(* (editorial_workflow.py), the reviewer agents' retry and parse wrappers  *)
(* (editor_agent.py, fact_checker_agent.py, writer_agent.py) and the       *)
(* Research Coordinator's cache (agent.py).                                *)
(*                                                                         *)
(* Texts produced by the generation capability are opaque: a text is a     *)
(* positive number, and every generation call returns a text never seen    *)
(* before.  A missing file or value is the empty sequence, a present one   *)
(* the one-element sequence holding it.                                    *)
(***************************************************************************)
EXTENDS Integers, Sequences, FiniteSets, TLC

\* ------------------------------------------------------------------ bounds
\* largest safety cap (self.max_iterations) explored
MaxCap == 2
\* largest safety cap explored over several runs on one output directory
MaxCapDir == 4
\* number of runs (one fresh run, then resumes) on one output directory
MaxRuns == 2
\* the generation capability fails on at most this many consecutive calls
MaxFailures == 9
\* longest issue list of a fact-check verdict given to the issue merge
MaxIssues == 3
\* longest pattern list of an authenticity verdict given to the issue merge
MaxPatterns == 2
\* most critical issues of an editor verdict given to the issue merge
MaxCritical == 2
\* number of research(topic) calls explored
MaxResearchCalls == 2
\* records one provider returns to one lookup
MaxHits == 2
\* verify_url calls of one process
MaxVerifyCalls == 3
\* research requests given to one do_targeted_research call
MaxRequests == 2

\* ------------------------------------------------------- program constants
\* retry_on_bedrock_error(func, max_retries=3, initial_delay=5)
max_retries == 3
initial_delay == 5
\* the agents' own loop: max_retries = 3, delay = 10 * (2 ** attempt)
agent_max_retries == 3
agent_initial_delay == 10
\* fact_check_score < 80 triggers the research step
research_score_threshold == 80
\* config.py
MAX_RESEARCH_ITERATIONS == 6
\* config.CONFIDENCE_THRESHOLD (0.8), in hundredths
CONFIDENCE_THRESHOLD == 80

None == <<>>
Some(x) == <<x>>

Range(s) == {s[i] : i \in 1..Len(s)}

\* ---------------------------------------------------------------- strings
\* `word in text.lower()` on the texts the model uses
LowerContains(text, word) ==
    <<text, word>> \in {
        <<"source", "source">>,
        <<"Source URL", "source">>,
        <<"Missing citation for the 40% figure", "citation">>,
        <<"Add more research on storage costs", "research">>,
        <<"Name the source of the quote", "source">>,
        <<"Add a Citation for the forecast", "citation">> }

\* ------------------------------------------------------- upstream failures
\* An upstream error: its class (EventStreamError or not) and its message.
Messages == {"serviceUnavailableException", "SSLError", "validationException"}
Errors == [eventStream : BOOLEAN, msg : Messages]
\* mutant: a call to the capability neither returns nor raises
Behaviours_hanging == {}
\* The capability fails on its first `failures` invocations of one call.
Behaviours == [failures : 0..MaxFailures, err : Errors]

Roles == {"editor", "fact_checker", "authenticity", "writer", "humanizer"}

\* authenticity_agent.py is not part of the sources: its loop is taken to be
\* the reviewers' common contract (retry on the transient classification).
AuthenticityRetryable(msg) == msg = "serviceUnavailableException"

\* mutant: every error is taken for transient by the agents
IsRetryable_any(role, msg) == TRUE
\* the agents' classification of a transient error
IsRetryable(role, msg) ==
    CASE role = "editor"       -> msg = "serviceUnavailableException"
      [] role = "writer"       -> msg = "serviceUnavailableException"
      [] role = "fact_checker" -> msg \in {"serviceUnavailableException", "SSLError"}
      [] role = "authenticity" -> AuthenticityRetryable(msg)
      [] OTHER                 -> FALSE

\* humanize() calls the capability once, the other agents loop
AgentRetries(role) == IF role = "humanizer" THEN 1 ELSE agent_max_retries

\* The agent's loop `for attempt in range(max_retries)` around self(prompt).
\* used: capability invocations made so far in this call; delays: sleeps so far.
RECURSIVE AgentLoop(_, _, _, _, _)
AgentLoop(role, b, used, attempt, delays) ==
    IF used + 1 > b.failures
    THEN [ok |-> TRUE, used |-> used + 1, delays |-> delays]
    ELSE IF attempt < AgentRetries(role) - 1 /\ IsRetryable(role, b.err.msg)
         THEN AgentLoop(role, b, used + 1, attempt + 1,
                        Append(delays, agent_initial_delay * (2 ^ attempt)))
         ELSE [ok |-> FALSE, used |-> used + 1, delays |-> delays]

\* retry_on_bedrock_error(lambda: agent.method(...))
RECURSIVE retry_on_bedrock_error(_, _, _, _, _)
retry_on_bedrock_error(role, b, used, attempt, delays) ==
    LET r == AgentLoop(role, b, used, 0, delays) IN
    IF r.ok THEN r
    ELSE IF ~b.err.eventStream THEN r
    ELSE IF attempt < max_retries - 1
         THEN retry_on_bedrock_error(role, b, r.used, attempt + 1,
                                     Append(r.delays, initial_delay * (2 ^ attempt)))
         ELSE r

\* one call of the workflow to an agent: [ok, used, delays]
Call(role, b) == retry_on_bedrock_error(role, b, 0, 0, <<>>)

\* --------------------------------------------------------------- verdicts
\* A fact-check issue; an authenticity pattern; an editor critical issue is
\* a string.  A key the payload lacks holds the default its readers use
\* (.get(key, default)).
Issue(sev, type, text, loc) ==
    [severity |-> sev, type |-> type, issue |-> text, location |-> loc]
Pattern(sev, text) == [severity |-> sev, pattern |-> text]

EditorVerdict(grade, critical, improvements, ready) ==
    [grade |-> grade, critical_issues |-> critical, improvements |-> improvements,
     ready_to_publish |-> ready, raw_feedback |-> None]
FactCheck(score, issues, ready) ==
    [verification_score |-> score, issues |-> issues,
     ready_to_publish |-> ready, raw_response |-> None]
AuthenticityCheck(score, patterns, ready) ==
    [authenticity_score |-> score, ai_patterns_found |-> patterns,
     ready_to_publish |-> ready, raw_response |-> None]

\* The text a reviewer's generation call returns: bare or fenced, holding a
\* JSON object (value), a JSON value that is no object, or no JSON at all.
\* inner is the text between the fences, or the whole text when bare.
Output(fence, kind, value, inner) ==
    [fence |-> fence, kind |-> kind, value |-> value, inner |-> inner]

\* the text as the generation call returned it
RawText(out) == [fence |-> out.fence, text |-> out.inner]

\* content.split("```json")[1].split("```")[0].strip(), or content itself:
\* what is left of the text is what stood between the fences
StripFence(out) == [fence |-> "none", text |-> out.inner]

\* EditorAgent.review_article, after the generation call
review_article(out) ==
    IF out.kind = "object"
    THEN out.value
    ELSE [grade |-> "N/A", critical_issues |-> <<>>, improvements |-> <<>>,
          ready_to_publish |-> FALSE, raw_feedback |-> Some(StripFence(out))]

\* FactCheckerAgent.check_article, after the generation call
check_article(out) ==
    IF out.kind = "object"
    THEN out.value
    ELSE [verification_score |-> 0, issues |-> <<>>,
          ready_to_publish |-> FALSE, raw_response |-> Some(StripFence(out))]

\* AuthenticityAgent.check_authenticity (authenticity_agent.py is not part
\* of the sources): the degraded verdict of the reviewers' common contract
check_authenticity(out) ==
    IF out.kind = "object"
    THEN out.value
    ELSE [authenticity_score |-> 0, ai_patterns_found |-> <<>>,
          ready_to_publish |-> FALSE, raw_response |-> Some(StripFence(out))]

\* editor_grade in ['A', 'A+']
EditorReady(grade) == grade \in {"A", "A+"}
\* mutant: the result uses the grade set of the gate
FinalEditorReady_asGate(grade) == grade \in {"A", "A+"}
\* editor_grade in ['A', 'A+', 'A-']
FinalEditorReady(grade) == grade \in {"A", "A+", "A-"}

\* ----------------------------------------------------------- issue merge
\* [wrap(x) for x in s if keep(x)], in order
SelectSeq2(s, keep(_), wrap(_)) ==
    LET kept == SelectSeq(s, keep)
    IN  [k \in 1..Len(kept) |-> wrap(kept[k])]

Entry(source, priority, item) ==
    [source |-> source, priority |-> priority, issue |-> item]

\* mutant: the issues are grouped by reviewer, the fact-checker's HIGH issues
\* coming right after its CRITICAL ones
_combine_issues_byReviewer(ef, fc, au) ==
    LET fcCritical(i) == i.severity = "CRITICAL"
        fcHigh(i)     == i.severity = "HIGH"
        auHigh(p)     == p.severity = "HIGH"
        auMedium(p)   == p.severity = "MEDIUM"
        all(i)        == TRUE
        asFcCritical(i) == Entry("fact-checker", "CRITICAL", i)
        asAuHigh(p)     == Entry("authenticity", "HIGH", p)
        asEditor(i)     == Entry("editor", "CRITICAL", i)
        asFcHigh(i)     == Entry("fact-checker", "HIGH", i)
        asAuMedium(p)   == Entry("authenticity", "MEDIUM", p)
    IN  SelectSeq2(fc.issues, fcCritical, asFcCritical)
        \o SelectSeq2(fc.issues, fcHigh, asFcHigh)
        \o SelectSeq2(au.ai_patterns_found, auHigh, asAuHigh)
        \o SelectSeq2(ef.critical_issues, all, asEditor)
        \o SelectSeq2(au.ai_patterns_found, auMedium, asAuMedium)

\* EditorialWorkflow._combine_issues
_combine_issues(editor_feedback, fact_check, authenticity_check) ==
    LET fcCritical(i) == i.severity = "CRITICAL"
        fcHigh(i)     == i.severity = "HIGH"
        auHigh(p)     == p.severity = "HIGH"
        auMedium(p)   == p.severity = "MEDIUM"
        all(i)        == TRUE
        asFcCritical(i) == Entry("fact-checker", "CRITICAL", i)
        asAuHigh(p)     == Entry("authenticity", "HIGH", p)
        asEditor(i)     == Entry("editor", "CRITICAL", i)
        asFcHigh(i)     == Entry("fact-checker", "HIGH", i)
        asAuMedium(p)   == Entry("authenticity", "MEDIUM", p)
    IN  SelectSeq2(fact_check.issues, fcCritical, asFcCritical)
        \o SelectSeq2(authenticity_check.ai_patterns_found, auHigh, asAuHigh)
        \o SelectSeq2(editor_feedback.critical_issues, all, asEditor)
        \o SelectSeq2(fact_check.issues, fcHigh, asFcHigh)
        \o SelectSeq2(authenticity_check.ai_patterns_found, auMedium, asAuMedium)

\* ------------------------------------------------------ research trigger
\* the sourcing/citation classification of one fact-check issue
IsSourceIssue(i) ==
    /\ i.severity \in {"CRITICAL", "HIGH"}
    /\ \/ LowerContains(i.type, "source")
       \/ LowerContains(i.issue, "citation")

\* has_source_issues = any(...)
has_source_issues(fact_check) ==
    \E k \in 1..Len(fact_check.issues) : IsSourceIssue(fact_check.issues[k])

\* fact_check_score < 80 or has_source_issues
ResearchTrigger(fact_check) ==
    fact_check.verification_score < research_score_threshold
    \/ has_source_issues(fact_check)

\* ResearchAgent.extract_research_requests
extract_research_requests(fact_check, editor) ==
    LET wantsResearch(t) == \/ LowerContains(t, "research")
                            \/ LowerContains(t, "source")
                            \/ LowerContains(t, "citation")
        fromIssue(i) == [claim |-> i.location, issue |-> i.issue,
                         priority |-> IF i.severity = "CRITICAL"
                                      THEN "critical" ELSE "high"]
        fromEditor(t) == [claim |-> t, issue |-> "Editor requested more research",
                          priority |-> "medium"]
    IN  SelectSeq2(fact_check.issues, IsSourceIssue, fromIssue)
        \o SelectSeq2(editor.improvements, wantsResearch, fromEditor)

\* ------------------------------------------------- generation outputs used
NoEditor == EditorVerdict("", <<>>, <<>>, FALSE)
NoFactCheck == FactCheck(0, <<>>, FALSE)
NoAuthenticity == AuthenticityCheck(0, <<>>, FALSE)

E_Aplus  == EditorVerdict("A+", <<>>, <<>>, TRUE)
E_A      == EditorVerdict("A", <<>>, <<>>, TRUE)
E_Aminus == EditorVerdict("A-", <<"Ending is flat">>, <<>>, FALSE)
E_B      == EditorVerdict("B", <<"Thesis is banal", "No named critics">>,
                          <<"Add more research on storage costs">>, FALSE)

F_92 == FactCheck(92, <<>>, TRUE)
F_79 == FactCheck(79, <<>>, TRUE)
F_85 == FactCheck(85, <<Issue("CRITICAL", "Source URL", "Link is dead", "claim-1")>>, FALSE)
F_70 == FactCheck(70, <<Issue("HIGH", "claim", "Missing citation for the 40% figure", "claim-2"),
                        Issue("LOW", "quote", "Paraphrased quote", "claim-3")>>, FALSE)
F_88 == FactCheck(88, <<Issue("HIGH", "statistic", "Figure is from 2019", "claim-4"),
                        Issue("MEDIUM", "source", "Blog as a source", "claim-5")>>, TRUE)
\* a verdict whose flag does not follow the rule of the fact-checker's prompt
F_50 == FactCheck(50, <<Issue("CRITICAL", "claim", "Invented quote", "claim-6")>>, TRUE)

U_90 == AuthenticityCheck(90, <<>>, TRUE)
U_55 == AuthenticityCheck(55, <<Pattern("MEDIUM", "hedging"), Pattern("HIGH", "rule of three"),
                                Pattern("LOW", "em dash")>>, FALSE)

Bare(v) == Output("none", "object", v, "json")
Fenced(v) == Output("json", "object", v, "json")

EditorOutputs ==
    {Bare(E_Aplus), Bare(E_A), Fenced(E_A), Bare(E_Aminus), Bare(E_B),
     Output("none", "garbage", NoEditor, "I cannot review this article"),
     Output("plain", "garbage", NoEditor, "grade: B"),
     Output("json", "array", NoEditor, "[1, 2]")}
FactCheckOutputs ==
    {Bare(F_92), Fenced(F_92), Bare(F_79), Bare(F_85), Bare(F_70), Bare(F_88),
     Bare(F_50),
     Output("none", "garbage", NoFactCheck, "The article looks fine"),
     Output("json", "garbage", NoFactCheck, "{score: 70")}
AuthenticityOutputs ==
    {Bare(U_90), Fenced(U_55),
     Output("none", "garbage", NoAuthenticity, "Sounds human to me")}

\* the outputs of the other cycles of a fresh run: none of them passes the gate
EditorOutputsOther == {Bare(E_A), Bare(E_B)}
FactCheckOutputsOther == {Bare(F_92), Bare(F_70)}
AuthenticityOutputsOther == {Bare(U_55)}

\* the outputs explored over several runs on one output directory
EditorOutputsDir == {Bare(E_A), Bare(E_B)}
FactCheckOutputsDir == {Bare(F_92)}
AuthenticityOutputsDir == {Bare(U_90)}

\* the upstream behaviours explored over several runs: the capability works,
\* or fails at once with an error no one retries
BehavioursDir ==
    {b \in Behaviours : /\ b.failures <= 1
                        /\ b.err = [eventStream |-> FALSE, msg |-> "validationException"]}

\* outcome of search_internet in one do_targeted_research call
SearchOutcomes == {"error", "empty", "found"}

\* -------------------------------------------------------------- the state
VARIABLES
    max_iterations,      \* self.max_iterations, the safety cap
    full_cycle,          \* the cycle of a run whose reviewers may return any output
    draft_file,          \* article_v1_draft.md
    article_files,       \* article_v{n}.md, n |-> text
    editor_files,        \* editor_feedback_v{n}.json
    fact_check_files,    \* fact_check_v{n}.json
    authenticity_files,  \* authenticity_check_v{n}.json
    final_file,          \* article_final.md
    extra_files,         \* the names of the other files of the output directory
    runs,                \* runs started on this output directory
    next_text,           \* the next text the generation capability returns
    pc,                  \* position of the running workflow
    mode,                \* "fresh" (process_article) or "resume"
    current_article,
    start_version,
    revision_num,
    previous_feedback,   \* resume: what was loaded for start_version
    previous_fact_check, \* the fact-check context given to the editor
    editor_feedback,
    fact_check,
    authenticity_check,
    replies,             \* the texts the three reviewers' generation calls returned
    revision_history,
    research_findings,
    combined_feedback,   \* the feedback handed to the last rewrite
    researched,          \* what the research step of this cycle did
    rewrites,            \* rewrites made by this run
    exit_via,            \* how the review loop ended
    result,              \* the returned WorkflowResult
    published,           \* the caller of the run has done its steps after the run
    raised,              \* the error that ended the run, with its call
    resume_path,         \* the article_path of the last resume_from_version call
    sources,             \* what the analysis, the lookups and the synthesis answer
    research_cache,      \* output/research_cache/{file}.json, file |-> document
    r_calls,             \* research(topic) calls made so far
    r_pc,                \* position of the running research call
    r_topic,
    r_use_cache,
    questions,
    all_findings,
    synthesis,
    confidence,          \* in hundredths
    iteration,
    invoked,             \* what the running research call has invoked, by kind
    research_result,     \* what the last research call returned
    lookup,              \* the Source Gateway lookup made: function and environment
    lookup_outcome,      \* what that lookup did: raised or returned, and the value
    _url_cache,          \* fact_checker_agent._url_cache, url |-> result
    v_calls              \* the verify_url calls of this process, oldest first

dirVars == <<draft_file, article_files, editor_files, fact_check_files,
             authenticity_files, final_file, extra_files>>
cycleVars == <<previous_fact_check, editor_feedback, fact_check, authenticity_check,
               replies>>
runVars == <<mode, current_article, start_version, revision_num, previous_feedback,
             revision_history, research_findings, combined_feedback, researched,
             rewrites, exit_via>>
workflowVars == <<max_iterations, full_cycle, dirVars, runs, next_text, pc, cycleVars,
                  runVars, result, published, raised, resume_path>>
researchVars == <<sources, research_cache, r_calls, r_pc, r_topic, r_use_cache, questions,
                  all_findings, synthesis, confidence, iteration, invoked,
                  research_result>>
toolVars == <<lookup, lookup_outcome, _url_cache, v_calls>>
vars == <<workflowVars, researchVars, toolVars>>

\* with open(file, 'w') as f: ...
\* mutant: the write is skipped
WriteFile_skipped(files, n, content) == files
WriteFile(files, n, content) ==
    [k \in DOMAIN files \cup {n} |-> IF k = n THEN content ELSE files[k]]

NoFiles == [k \in {} |-> 0]
NoReplies == [editor |-> None, fact_checker |-> None, authenticity |-> None]

\* ------------------------------------------------ the research of a topic
Topics == {"AI bubble", "AI_bubble", "grid storage"}
\* the topic resume_from_version rebuilds from a directory that
\* editorial_workflow.py made when run as a script: editorial_{timestamp}
ScriptTopic == "editorial"

\* Path(f"output/research_cache/{topic.replace(' ', '_')}.json"), by its stem
cache_file(topic) ==
    CASE topic = "AI bubble"    -> "AI_bubble"
      [] topic = "AI_bubble"    -> "AI_bubble"
      [] topic = "grid storage" -> "grid_storage"
      [] topic = ScriptTopic    -> "editorial"

\* a research result as json.dump leaves it in the cache file; a write that
\* fails part-way leaves a file that json.load rejects
Document(value) == [complete |-> TRUE, value |-> Some(value)]
PartialDocument == [complete |-> FALSE, value |-> None]

\* json.load of a cache file: the persisted result, or None when it raises
json_load(doc) == IF doc.complete THEN doc.value ELSE None

\* dict.get(key, default)
Get(dict, key, default) == IF key \in DOMAIN dict THEN dict[key] ELSE default

\* the cache directory after `with open(cache_file, 'w') as f: json.dump(...)`
\* of research(): the document, what a write that fails part-way leaves, or
\* the directory as it was when the file cannot be opened
SaveCache(cache, file, res, outcome) ==
    CASE outcome = "written" -> WriteFile(cache, file, Document(res))
      [] outcome = "write_fails" -> WriteFile(cache, file, PartialDocument)
      [] OTHER -> cache

\* what the world answers: the reply to the topic analysis prompt, whether the
\* encyclopedia has a page, whether the client of the knowledge base can be
\* built, the results the knowledge base returns per question, what the web
\* gives per question, and the replies to the synthesis prompt
Sources ==
    [analysis: {"questions", "text", "empty", "error"},
     encyclopedia: {"page", "error"},
     kb_client: {"built", "error"},
     knowledge_base: 0..1,
     web: {"none", "error", "page"},
     synthesis: {"no_gaps", "text", "confident_later", "gaps", "text_later", "list",
                 "error"}]

QuietSources ==
    [analysis |-> "text", encyclopedia |-> "error", kb_client |-> "built",
     knowledge_base |-> 0, web |-> "none", synthesis |-> "text"]

NoneInvoked ==
    [analysis |-> 0, encyclopedia |-> 0, knowledge_base |-> 0, web_search |-> 0,
     crawl |-> 0, synthesis |-> 0]

\* no research call made yet, the cache directory as an earlier process
\* left it
InitResearchOn(worlds, caches) ==
    /\ sources \in worlds
    /\ research_cache \in caches
    /\ r_calls = 0
    /\ r_pc = "idle"
    /\ r_topic = ""
    /\ r_use_cache = TRUE
    /\ questions = <<>>
    /\ all_findings = <<>>
    /\ synthesis = None
    /\ confidence = 0
    /\ iteration = 0
    /\ invoked = NoneInvoked
    /\ research_result = None

\* no research call made yet, the cache directory empty
InitResearch(worlds) == InitResearchOn(worlds, {NoFiles})

\* no lookup made, _url_cache = {} (fact_checker_agent.py line 18)
InitTools ==
    /\ lookup = None
    /\ lookup_outcome = None
    /\ _url_cache = NoFiles
    /\ v_calls = <<>>

\* the state after construction, but for pc, the three verdicts and the
\* research
InitBase(caps, cycles) ==
    /\ InitTools
    /\ max_iterations \in caps
    /\ full_cycle \in cycles
    /\ draft_file = None
    /\ article_files = NoFiles
    /\ editor_files = NoFiles
    /\ fact_check_files = NoFiles
    /\ authenticity_files = NoFiles
    /\ final_file = None
    /\ extra_files = {}
    /\ runs = 0
    /\ next_text = 1
    /\ mode = "none"
    /\ current_article = 0
    /\ start_version = 0
    /\ revision_num = 0
    /\ previous_feedback = None
    /\ previous_fact_check = None
    /\ replies = NoReplies
    /\ revision_history = <<>>
    /\ research_findings = <<>>
    /\ combined_feedback = None
    /\ researched = "no"
    /\ rewrites = 0
    /\ exit_via = "none"
    /\ result = None
    /\ published = FALSE
    /\ raised = None
    /\ resume_path = None

\* the state the workflow starts from, with the cache directory as given
InitOn(caps, cycles, caches) ==
    /\ InitBase(caps, cycles)
    /\ InitResearchOn({QuietSources}, caches)
    /\ pc = "idle"
    /\ editor_feedback = None
    /\ fact_check = None
    /\ authenticity_check = None

\* the state the workflow starts from
InitWith(caps, cycles) == InitOn(caps, cycles, {NoFiles})

Init == InitWith(1..MaxCap, 1..MaxCap)

\* what a run starts from: the locals of _continue_workflow
StartRun(m, article, version, feedback) ==
    /\ runs' = runs + 1
    /\ mode' = m
    /\ current_article' = article
    /\ start_version' = version
    /\ revision_num' = version
    /\ previous_feedback' = feedback
    /\ previous_fact_check' = None
    /\ editor_feedback' = None
    /\ fact_check' = None
    /\ authenticity_check' = None
    /\ replies' = NoReplies
    /\ revision_history' = <<>>
    /\ combined_feedback' = None
    /\ researched' = "no"
    /\ rewrites' = 0
    /\ exit_via' = "none"
    /\ result' = None
    /\ raised' = None

\* an agent call ended in an error: the run is over, the error reaches the
\* caller of process_article / resume_from_version
Raise(role, b, c) ==
    /\ pc' = "raised"
    /\ raised' = Some([role |-> role, err |-> b.err, used |-> c.used, delays |-> c.delays])

\* what a write of a run may do: it succeeds; open(file, 'w') fails and the
\* file is left as it was (absent, or with its earlier content); or the file
\* was opened, and so emptied, and the write failed after none or some of
\* the content had gone out
SoundDisk == {"written"}
Disk == {"written", "noopen", "cut"}
\* the ways a write can fail
Failures(writes) == writes \ {"written"}

\* `with open(file, 'w') as f` of the workflow is in no try: the OSError of a
\* write that fails ends the run and reaches the caller
WriteFails(file) ==
    /\ pc' = "raised"
    /\ raised' = Some([role |-> file, err |-> [eventStream |-> FALSE, msg |-> "OSError"],
                      used |-> 0, delays |-> <<>>])

\* what a write that fails leaves in the directory: `open(file, 'w')` has
\* emptied or created the file, and f.write / json.dump got none or only the
\* first bytes of the content out before the OSError
CutText(text) == 0 - text
CutVerdict == [cut |-> TRUE]
\* the files of one kind, and a single file, after the write of number n
\* (of the file) failed in way w
FailedVerdict(files, n, w) == IF w = "cut" THEN WriteFile(files, n, CutVerdict) ELSE files
FailedText(files, n, text, w) ==
    IF w = "cut" THEN WriteFile(files, n, CutText(text)) ELSE files
FailedFile(file, text, w) == IF w = "cut" THEN Some(CutText(text)) ELSE file

\* json.load(f) of a verdict file: json.JSONDecodeError for a file that is
\* empty or cut short
Decodes(content) == content # CutVerdict

\* the topic of the runs: the output directory is AI_bubble_{timestamp}
RunTopic == "AI bubble"

\* research_result['findings'] of the research main made before the run
InitialFindings == <<[source |-> "Wikipedia", related_claim |-> "", priority |-> ""]>>
TwoFindings ==
    InitialFindings \o <<[source |-> "web", related_claim |-> "", priority |-> ""]>>

\* the research results main may have got
MainResults == {[topic |-> RunTopic, findings |-> f] : f \in {InitialFindings}}
MainResultsAll ==
    {[topic |-> RunTopic, findings |-> f] : f \in {<<>>, InitialFindings, TwoFindings}}
\* what the save of research() did to the cache file
MainSaves == {"written"}
MainSavesAll == {"written", "open_fails", "write_fails"}

\* process_article: the run starts at version 0 with no previous feedback
\* and the findings it is given
StartFresh(article, findings) ==
    /\ StartRun("fresh", article, 0, None)
    /\ research_findings' = findings
    /\ pc' = "editor"

\* the errors a capability that fails raises
RaisedBy(faults) == {b.err : b \in {x \in faults : x.failures > 0}}

\* agent.py __main__: research (its result and what it left in the cache),
\* the draft, article_v1_draft.md saved in the new directory, then
\* process_article with the findings of the research. Nothing of it is in a
\* try: an error of research or of the generation of the draft ends main
\* before the directory is made, a write of the draft that fails ends it
\* before the workflow starts
Main(results, saves, faults, writes) ==
    /\ pc = "idle"
    /\ runs = 0
    /\ \/ \E res \in results, save \in saves :
            /\ research_cache' = SaveCache(research_cache, cache_file(RunTopic), res, save)
            /\ \/ /\ draft_file' = Some(next_text)
                  /\ next_text' = next_text + 1
                  /\ StartFresh(next_text, res.findings)
               \/ /\ \E w \in Failures(writes) :
                        draft_file' = FailedFile(draft_file, next_text, w)
                  /\ WriteFails("article_v1_draft")
                  /\ UNCHANGED <<next_text, runs, cycleVars, runVars, result>>
               \/ \E err \in RaisedBy(faults) :
                     /\ pc' = "raised"
                     /\ raised' = Some([role |-> "write_article", err |-> err,
                                        used |-> 1, delays |-> <<>>])
                     /\ UNCHANGED <<draft_file, next_text, runs, cycleVars, runVars,
                                    result>>
       \/ \E err \in RaisedBy(faults) :
            /\ pc' = "raised"
            /\ raised' = Some([role |-> "research", err |-> err,
                               used |-> 1, delays |-> <<>>])
            /\ UNCHANGED <<research_cache, draft_file, next_text, runs, cycleVars,
                           runVars, result>>
    /\ UNCHANGED <<published, resume_path, toolVars, max_iterations, full_cycle,
                   article_files, editor_files, fact_check_files,
                   authenticity_files, final_file, extra_files,
                   sources, r_calls, r_pc, r_topic, r_use_cache, questions,
                   all_findings, synthesis, confidence, iteration, invoked,
                   research_result>>

\* `with open(latest_article, 'r') as f: article = f.read()`: the text of the
\* latest output/article_*.md, the first text there is
ScriptArticle == 1

\* editorial_workflow.py __main__: process_article on the article read from
\* that file, in a new directory, with no research_findings (None); no draft
\* is written
ProcessArticle ==
    /\ pc = "idle"
    /\ runs = 0
    /\ next_text' = ScriptArticle + 1
    /\ StartFresh(ScriptArticle, None)
    /\ UNCHANGED <<published, resume_path, toolVars, researchVars, max_iterations, full_cycle,
                   dirVars>>

\* previous_feedback.get(role, {}): a verdict that was not loaded is empty
OrEmpty(loaded, empty) == IF loaded = None THEN empty ELSE loaded[1]

\* the combined_feedback dict built for the writer
CombinedFeedback(ef, fc, au, user) ==
    [editor |-> ef, fact_checker |-> fc, authenticity |-> au, user |-> user,
     combined_issues |-> _combine_issues(ef, fc, au)]

\* free-text feedback of the end user; an empty string counts as none
UserFeedbacks == {None, Some("Add more examples")}

\* an agent call of this role can succeed / can fail
CanSucceed(role) == \E b \in Behaviours : Call(role, b).ok
Failing(role, faults) == {b \in faults : ~Call(role, b).ok}

\* mutant: a resume always starts with a rewrite
AppliesPreviousFeedback_always(fb, s) == TRUE

\* `if previous_feedback and start_version > 0`: the dict of loaded feedback
\* is not empty
AppliesPreviousFeedback(fb, s) ==
    /\ \/ fb.editor # None \/ fb.fact_checker # None
       \/ fb.authenticity # None \/ fb.user # None
    /\ s > 0

\* a file name of the output directory, by its parts
Path(prefix, stem, version, tail, ext, suffix) ==
    [prefix |-> prefix, stem |-> stem, version |-> version, tail |-> tail,
     ext |-> ext, suffix |-> suffix]
ArticlePath(s) == Path("", "article_v", Some(s), "", ".md", "")
\* the copy an editor keeps of a version it saved
BackupPath(s) == Path("", "article_v", Some(s), "", ".md", ".bak")
DraftPath == Path("", "article_v", Some(1), "_draft", ".md", "")
FinalPath == Path("", "article_final", None, "", ".md", "")

\* the paths resume_from_version is called with
ResumeTargets ==
    {ArticlePath(s) : s \in DOMAIN article_files \cup {0}}
        \cup {BackupPath(s) : s \in DOMAIN article_files \cup {0}}
        \cup {DraftPath, FinalPath}

\* article_path.exists()
Exists(path) ==
    CASE path = DraftPath -> draft_file # None
      [] path = FinalPath -> final_file # None
      [] OTHER -> path.version[1] \in DOMAIN article_files

\* f.read() of a path that exists
Content(path) ==
    CASE path = DraftPath -> draft_file[1]
      [] path = FinalPath -> final_file[1]
      [] OTHER -> article_files[path.version[1]]

\* re.search(r'article_v(\d+)\.md', article_path.name): the version, when
\* the pattern occurs anywhere in the name
VersionOf(path) ==
    IF path.stem = "article_v" /\ path.version # None /\ path.tail = "" /\ path.ext = ".md"
    THEN path.version ELSE None

\* raise FileNotFoundError / ValueError before anything else is done
RaiseAtOnce(error) ==
    /\ pc' = "raised"
    /\ raised' = Some([role |-> "resume_from_version",
                       err |-> [eventStream |-> FALSE, msg |-> error],
                       used |-> 0, delays |-> <<>>])
    /\ runs' = runs + 1
    /\ UNCHANGED <<cycleVars, runVars, result>>

\* `if editor_file.exists(): previous_feedback['editor'] = json.load(f)`, for
\* the file of version s of each role
LoadVerdict(files, s) == IF s \in DOMAIN files THEN Some(files[s]) ELSE None

\* the json.load of each verdict file of version s that exists succeeds
VerdictsDecode(s) ==
    \A files \in {editor_files, fact_check_files, authenticity_files} :
        s \in DOMAIN files => Decodes(files[s])

\* `research_findings = None; if cache_file.exists(): cache_data =
\* json.load(f); research_findings = cache_data.get('findings', [])`, for a
\* cache file that json.load accepts; None and [] are both the empty sequence
CachedFindings(cache, file) ==
    IF file \in DOMAIN cache THEN Get(cache[file].value[1], "findings", <<>>) ELSE None

\* `topic_match = re.search(r'(.+)_\d{8}_\d{6}', output_dir.name)`: the topic
\* of a resume is read off the name of the directory. agent.py names it
\* after its topic; editorial_workflow.py run as a script names it
\* editorial_{timestamp}. The directory of agent.py is the one with the
\* draft: a version of the article exists only in a run that started, and
\* agent.py starts the run after the draft was written
DirectoryTopic == IF draft_file = None THEN ScriptTopic ELSE RunTopic

\* the research cache an earlier process may have left: nothing, the result
\* of research() on the topic, a document with no 'findings', or a file cut
\* short by a write that failed
EarlierCaches ==
    {NoFiles,
     WriteFile(NoFiles, cache_file(RunTopic),
               Document([topic |-> RunTopic, findings |-> InitialFindings])),
     WriteFile(NoFiles, cache_file(RunTopic), Document([topic |-> RunTopic])),
     WriteFile(NoFiles, cache_file(RunTopic), PartialDocument)}

\* the process that made the last run is over: an error ended it, or the
\* caller has done the steps that follow the return of the run
CallerEnded == pc = "raised" \/ (pc = "done" /\ published)

\* EditorialWorkflow.resume_from_version, up to the call of _continue_workflow,
\* and the head of _continue_workflow; resume_workflow.py is a process of its
\* own, started when the one before is over
ResumeFromVersion ==
    /\ CallerEnded
    /\ runs < MaxRuns
    /\ \E path \in ResumeTargets, uf \in UserFeedbacks :
         /\ resume_path' = Some(path)
         /\ IF ~Exists(path) THEN RaiseAtOnce("FileNotFoundError")
            ELSE IF VersionOf(path) = None THEN RaiseAtOnce("ValueError")
            ELSE
              LET s == VersionOf(path)[1]
                  fb == [editor       |-> LoadVerdict(editor_files, s),
                         fact_checker |-> LoadVerdict(fact_check_files, s),
                         authenticity |-> LoadVerdict(authenticity_files, s),
                         user         |-> uf]
                  file == cache_file(DirectoryTopic)
              IN  IF \/ ~VerdictsDecode(s)
                     \/ file \in DOMAIN research_cache /\ ~research_cache[file].complete
                  THEN RaiseAtOnce("JSONDecodeError")
                  ELSE /\ StartRun("resume", Content(path), s, Some(fb))
                       /\ pc' = IF AppliesPreviousFeedback(fb, s)
                                THEN "resume_rewrite" ELSE "editor"
                       /\ research_findings' = CachedFindings(research_cache, file)
    /\ published' = FALSE
    /\ UNCHANGED <<toolVars, researchVars, max_iterations, full_cycle, dirVars, next_text>>

\* _continue_workflow: `if previous_feedback and start_version > 0`, the
\* rewrite with the loaded feedback and the save of article_v{s+1}.md
ResumeRewrite(faults, writes) ==
    /\ pc = "resume_rewrite"
    /\ \/ /\ CanSucceed("writer")
          /\ current_article' = next_text
          /\ next_text' = next_text + 1
          /\ article_files' = WriteFile(article_files, start_version + 1, next_text)
          /\ combined_feedback' =
               Some(CombinedFeedback(OrEmpty(previous_feedback[1].editor, NoEditor),
                                     OrEmpty(previous_feedback[1].fact_checker, NoFactCheck),
                                     OrEmpty(previous_feedback[1].authenticity, NoAuthenticity),
                                     previous_feedback[1].user))
          /\ start_version' = start_version + 1
          /\ revision_num' = start_version + 1
          /\ rewrites' = rewrites + 1
          /\ pc' = "editor"
          /\ UNCHANGED raised
       \/ /\ \E b \in Failing("writer", faults) : Raise("writer", b, Call("writer", b))
          /\ UNCHANGED <<current_article, next_text, article_files, start_version,
                         revision_num, rewrites, combined_feedback>>
       \/ /\ CanSucceed("writer")
          /\ WriteFails("article_v")
          /\ \E w \in Failures(writes) :
               article_files' = FailedText(article_files, start_version + 1, next_text, w)
          /\ UNCHANGED <<current_article, next_text, start_version,
                         revision_num, rewrites, combined_feedback>>
    /\ UNCHANGED <<published, resume_path, toolVars, researchVars, max_iterations, full_cycle,
                   draft_file, editor_files, fact_check_files,
                   authenticity_files, final_file, extra_files, runs, cycleVars, mode,
                   previous_feedback, revision_history, research_findings,
                   researched, exit_via, result>>

\* the outputs a reviewer may return in the current cycle of the run
CycleOutputs(full, other) ==
    IF Len(revision_history) + 1 = full_cycle THEN full ELSE other

\* `if revision_num > 1` and fact_check_v{revision_num - 1}.json exists
HasPreviousFactCheck ==
    revision_num > 1 /\ (revision_num - 1) \in DOMAIN fact_check_files

\* the editor's call and the save of its verdict
EditorReview(full, other, faults, writes) ==
       \/ /\ CanSucceed("editor")
          /\ \E out \in CycleOutputs(full, other) :
               LET v == review_article(out) IN
               /\ editor_feedback' = Some(v)
               /\ replies' = [replies EXCEPT !.editor = Some(out)]
               /\ editor_files' = WriteFile(editor_files, revision_num, v)
          /\ previous_fact_check' =
               IF revision_num > 1 /\ (revision_num - 1) \in DOMAIN fact_check_files
               THEN Some(fact_check_files[revision_num - 1]) ELSE None
          /\ pc' = "fact_check"
          /\ UNCHANGED raised
       \/ /\ \E b \in Failing("editor", faults) : Raise("editor", b, Call("editor", b))
          /\ UNCHANGED <<editor_feedback, editor_files, previous_fact_check, replies>>
       \/ /\ CanSucceed("editor")
          /\ WriteFails("editor_feedback_v")
          /\ \E w \in Failures(writes) :
               editor_files' = FailedVerdict(editor_files, revision_num, w)
          /\ UNCHANGED <<editor_feedback, previous_fact_check, replies>>

\* Step 1 of a cycle: the previous fact-check is loaded for the editor (an
\* unguarded json.load), the editor reviews, the verdict is saved
EditorStep(full, other, faults, writes) ==
    /\ pc = "editor"
    /\ \/ /\ HasPreviousFactCheck
          /\ ~Decodes(fact_check_files[revision_num - 1])
          /\ pc' = "raised"
          /\ raised' = Some([role |-> "fact_check_v",
                             err |-> [eventStream |-> FALSE, msg |-> "JSONDecodeError"],
                             used |-> 0, delays |-> <<>>])
          /\ UNCHANGED <<editor_feedback, editor_files, previous_fact_check, replies>>
       \/ /\ HasPreviousFactCheck => Decodes(fact_check_files[revision_num - 1])
          /\ EditorReview(full, other, faults, writes)
    /\ UNCHANGED <<published, resume_path, toolVars, researchVars, max_iterations, full_cycle,
                   draft_file, article_files, fact_check_files,
                   authenticity_files, final_file, extra_files, runs, next_text, fact_check,
                   authenticity_check, runVars, result>>

\* Step 2: the fact-checker verifies, the verdict is saved
FactCheckStep(full, other, faults, writes) ==
    /\ pc = "fact_check"
    /\ \/ /\ CanSucceed("fact_checker")
          /\ \E out \in CycleOutputs(full, other) :
               LET v == check_article(out) IN
               /\ fact_check' = Some(v)
               /\ replies' = [replies EXCEPT !.fact_checker = Some(out)]
               /\ fact_check_files' = WriteFile(fact_check_files, revision_num, v)
          /\ pc' = "authenticity"
          /\ UNCHANGED raised
       \/ /\ \E b \in Failing("fact_checker", faults) :
               Raise("fact_checker", b, Call("fact_checker", b))
          /\ UNCHANGED <<fact_check, fact_check_files, replies>>
       \/ /\ CanSucceed("fact_checker")
          /\ WriteFails("fact_check_v")
          /\ \E w \in Failures(writes) :
               fact_check_files' = FailedVerdict(fact_check_files, revision_num, w)
          /\ UNCHANGED <<fact_check, replies>>
    /\ UNCHANGED <<published, resume_path, toolVars, researchVars, max_iterations, full_cycle,
                   draft_file, article_files, editor_files,
                   authenticity_files, final_file, extra_files, runs, next_text, editor_feedback,
                   previous_fact_check, authenticity_check, runVars, result>>

\* Step 3: the authenticity check, the verdict is saved
AuthenticityStep(full, other, faults, writes) ==
    /\ pc = "authenticity"
    /\ \/ /\ CanSucceed("authenticity")
          /\ \E out \in CycleOutputs(full, other) :
               LET v == check_authenticity(out) IN
               /\ authenticity_check' = Some(v)
               /\ replies' = [replies EXCEPT !.authenticity = Some(out)]
               /\ authenticity_files' = WriteFile(authenticity_files, revision_num, v)
          /\ pc' = "gate"
          /\ UNCHANGED raised
       \/ /\ \E b \in Failing("authenticity", faults) :
               Raise("authenticity", b, Call("authenticity", b))
          /\ UNCHANGED <<authenticity_check, authenticity_files, replies>>
       \/ /\ CanSucceed("authenticity")
          /\ WriteFails("authenticity_check_v")
          /\ \E w \in Failures(writes) :
               authenticity_files' = FailedVerdict(authenticity_files, revision_num, w)
          /\ UNCHANGED <<authenticity_check, replies>>
    /\ UNCHANGED <<published, resume_path, toolVars, researchVars, max_iterations, full_cycle,
                   draft_file, article_files, editor_files,
                   fact_check_files, final_file, extra_files, runs, next_text, editor_feedback,
                   previous_fact_check, fact_check, runVars, result>>

\* len([i for i in issues if i.get('severity') == 'CRITICAL'])
CriticalCount(fc) == Cardinality({k \in 1..Len(fc.issues) : fc.issues[k].severity = "CRITICAL"})

\* mutant: the record is numbered by the revision reviewed
RevisionRecord_sameNumber(r, ef, fc, au) ==
    [revision           |-> r,
     editor_grade       |-> ef.grade,
     editor_ready       |-> EditorReady(ef.grade),
     fact_check_score   |-> fc.verification_score,
     fact_check_ready   |-> fc.ready_to_publish,
     authenticity_score |-> au.authenticity_score,
     authenticity_ready |-> au.ready_to_publish,
     critical_issues    |-> CriticalCount(fc),
     ai_patterns        |-> Len(au.ai_patterns_found)]
\* the RevisionRecord of a cycle
RevisionRecord(r, ef, fc, au) ==
    [revision           |-> r + 1,
     editor_grade       |-> ef.grade,
     editor_ready       |-> EditorReady(ef.grade),
     fact_check_score   |-> fc.verification_score,
     fact_check_ready   |-> fc.ready_to_publish,
     authenticity_score |-> au.authenticity_score,
     authenticity_ready |-> au.ready_to_publish,
     critical_issues    |-> CriticalCount(fc),
     ai_patterns        |-> Len(au.ai_patterns_found)]

\* mutant: the gate forgets the authenticity verdict
GatePasses_noAuthenticity(ef, fc, au) ==
    EditorReady(ef.grade) /\ fc.ready_to_publish

\* mutant: the gate accepts the top grade only
GatePasses_topGradeOnly(ef, fc, au) ==
    ef.grade = "A+" /\ fc.ready_to_publish /\ au.ready_to_publish

\* `if editor_ready and fact_check_ready and authenticity_ready`
GatePasses(ef, fc, au) ==
    EditorReady(ef.grade) /\ fc.ready_to_publish /\ au.ready_to_publish

\* mutant: the safety limit is checked one revision late
CapReached_late(r, cap) == r >= cap

\* `if revision_num >= self.max_iterations - 1`
CapReached(r, cap) == r >= cap - 1

\* the cycle is recorded, then the gate and the safety limit are checked
GateCheck ==
    /\ pc = "gate"
    /\ LET ef == editor_feedback[1]
           fc == fact_check[1]
           au == authenticity_check[1]
       IN  /\ revision_history' =
                Append(revision_history, RevisionRecord(revision_num, ef, fc, au))
           /\ IF GatePasses(ef, fc, au)
              THEN exit_via' = "approved" /\ pc' = "finalize"
              ELSE IF CapReached(revision_num, max_iterations)
                   THEN exit_via' = "cap" /\ pc' = "finalize"
                   ELSE exit_via' = exit_via /\ pc' = "research"
    /\ UNCHANGED <<published, resume_path, toolVars, researchVars, max_iterations, full_cycle,
                   dirVars, runs, next_text, cycleVars, mode,
                   current_article, start_version, revision_num, previous_feedback,
                   research_findings, combined_feedback, researched, rewrites,
                   result, raised>>

\* claim.split() on the claims the model uses
split(claim) ==
    CASE claim = "" -> <<>>
      [] claim = "Add more research on storage costs" ->
             <<"Add", "more", "research", "on", "storage", "costs">>
      [] claim = "In 2023 the grid added 40% more storage" ->
             <<"In", "2023", "the", "grid", "added", "40%", "more", "storage">>
      [] OTHER -> <<claim>>

\* mutant: the whole claim is the query
keywords_whole(claim) == split(claim)
\* keywords = claim.split()[:5]; the query is their join
keywords(claim) ==
    SubSeq(split(claim), 1, IF Len(split(claim)) > 5 THEN 5 ELSE Len(split(claim)))

\* the searches do_targeted_research issues: search_internet(query, max_results=3)
TargetedSearches(requests) ==
    [k \in 1..Len(requests) |-> [query |-> keywords(requests[k].claim), max_results |-> 3]]

\* the empty string
EmptyText == <<>>
\* dict.get(key, default)
\* the n records search_internet returns, of either provider: the address of
\* the page is under the key 'source'
SearchRecords(n) ==
    [i \in 1..n |-> [type |-> "web_search", source |-> <<"https://result", i>>]]

\* the findings it returns; answers[k] is what the k-th search did: it
\* raised (ok false) or returned so many records
RECURSIVE TargetedFindings(_, _)
TargetedFindings(requests, answers) ==
    IF requests = <<>> THEN <<>>
    ELSE LET request == Head(requests)
             results == SearchRecords(Head(answers).records)
             found == IF Head(answers).ok
                      THEN [j \in 1..Len(results) |->
                              [url |-> Get(results[j], "url", EmptyText),
                               source |-> "targeted_internet_search",
                               related_claim |-> request.claim,
                               priority |-> request.priority]]
                      ELSE <<>>
         IN  found \o TargetedFindings(Tail(requests), Tail(answers))

\* ResearchAgent.do_targeted_research with every search ending alike: a
\* failed search is skipped, a found record becomes a finding
do_targeted_research(requests, outcome) ==
    TargetedFindings(requests,
                     [k \in 1..Len(requests) |->
                        [ok |-> outcome # "error",
                         records |-> IF outcome = "found" THEN 1 ELSE 0]])

\* Step 4: targeted research when the fact-check asks for it
ResearchStep ==
    /\ pc = "research"
    /\ LET ef == editor_feedback[1]
           fc == fact_check[1]
           research_requests == extract_research_requests(fc, ef)
       IN  IF ResearchTrigger(fc)
           THEN IF research_requests # <<>>
                THEN \E outcome \in SearchOutcomes :
                       /\ research_findings' = research_findings
                             \o do_targeted_research(research_requests, outcome)
                       /\ researched' = "ran"
                ELSE /\ researched' = "no_requests"
                     /\ UNCHANGED research_findings
           ELSE /\ researched' = "not_triggered"
                /\ UNCHANGED research_findings
    /\ pc' = "rewrite"
    /\ UNCHANGED <<published, resume_path, toolVars, researchVars, max_iterations, full_cycle,
                   dirVars, runs, next_text, cycleVars, mode,
                   current_article, start_version, revision_num, previous_feedback,
                   revision_history, combined_feedback, rewrites, exit_via, result,
                   raised>>

\* Steps 5 and 6: the writer revises with the combined feedback, the new
\* version is saved, the loop goes on with the next revision number
RewriteStep(faults, writes) ==
    /\ pc = "rewrite"
    /\ \/ /\ CanSucceed("writer")
          /\ current_article' = next_text
          /\ next_text' = next_text + 1
          /\ article_files' = WriteFile(article_files, revision_num + 1, next_text)
          /\ combined_feedback' =
               Some(CombinedFeedback(editor_feedback[1], fact_check[1],
                                     authenticity_check[1], None))
          /\ rewrites' = rewrites + 1
          /\ researched' = "no"
          /\ IF revision_num + 1 < start_version + max_iterations
             THEN revision_num' = revision_num + 1 /\ pc' = "editor"
             ELSE revision_num' = revision_num /\ pc' = "finalize"
          /\ UNCHANGED raised
       \/ /\ \E b \in Failing("writer", faults) : Raise("writer", b, Call("writer", b))
          /\ UNCHANGED <<current_article, next_text, article_files, rewrites,
                         researched, revision_num, combined_feedback>>
       \/ /\ CanSucceed("writer")
          /\ WriteFails("article_v")
          /\ \E w \in Failures(writes) :
               article_files' = FailedText(article_files, revision_num + 1, next_text, w)
          /\ UNCHANGED <<current_article, next_text, rewrites,
                         researched, revision_num, combined_feedback>>
    /\ UNCHANGED <<published, resume_path, toolVars, researchVars, max_iterations, full_cycle,
                   draft_file, editor_files, fact_check_files,
                   authenticity_files, final_file, extra_files, runs, cycleVars, mode,
                   start_version, previous_feedback, revision_history,
                   research_findings, exit_via, result>>

\* mutant: the result reports the verdicts of the first cycle of the run
WorkflowResult_firstCycle(article, ef, fc, au, history) ==
    [final_article      |-> article,
     editor_grade       |-> history[1].editor_grade,
     editor_ready       |-> FinalEditorReady(history[1].editor_grade),
     fact_check_score   |-> history[1].fact_check_score,
     fact_check_ready   |-> history[1].fact_check_ready,
     authenticity_score |-> history[1].authenticity_score,
     authenticity_ready |-> history[1].authenticity_ready,
     ready_to_publish   |-> /\ FinalEditorReady(history[1].editor_grade)
                            /\ history[1].fact_check_ready
                            /\ history[1].authenticity_ready,
     total_revisions    |-> Len(history),
     revision_history   |-> history]
\* the returned dict
WorkflowResult(article, ef, fc, au, history) ==
    [final_article      |-> article,
     editor_grade       |-> ef.grade,
     editor_ready       |-> FinalEditorReady(ef.grade),
     fact_check_score   |-> fc.verification_score,
     fact_check_ready   |-> fc.ready_to_publish,
     authenticity_score |-> au.authenticity_score,
     authenticity_ready |-> au.ready_to_publish,
     ready_to_publish   |-> /\ FinalEditorReady(ef.grade)
                            /\ fc.ready_to_publish
                            /\ au.ready_to_publish,
     total_revisions    |-> Len(history),
     revision_history   |-> history]

\* current_article = retry_on_bedrock_error(lambda: self.humanizer.humanize(...)):
\* the text the humanizer's generation call returns
HumanizerOutput == next_text

\* what the layout agent's generation call does: it returns a JSON object
\* with the formatted article, or a text json.loads rejects, or it raises
LayoutReplies == {"json", "text", "error"}
LayoutRepliesDir == {"json"}
LayoutRepliesRun == {"json", "error"}

EnhancedPath == Path("", "article_enhanced", None, "", ".html", "")
MediumPath == Path("", "article_medium", None, "", ".md", "")
MediumHtmlPath == Path("", "article_medium", None, "", ".html", "")
ImagesPath == Path("", "article_images", None, "", ".json", "")
FinalHtmlPath == Path("", "article_final", None, "", ".html", "")

\* LayoutAgent.enhance_layout: the files of the directory after it returned;
\* article_enhanced.html is written when the reply is a JSON object; every
\* failure after the generation call, the one of the write included, is
\* caught and reported in the result, and a write that failed after the
\* file was opened leaves the file
enhance_layout(files, reply, w) ==
    IF reply = "json" /\ w # "noopen" THEN files \cup {EnhancedPath} ELSE files

\* after the loop: humanize, save article_final.md, enhance the layout (its
\* generation call is in no try and not retried), generate the image, build
\* the result
Finalize(faults, layouts, writes) ==
    /\ pc = "finalize"
    /\ \/ /\ CanSucceed("humanizer")
          /\ current_article' = HumanizerOutput
          /\ next_text' = next_text + 1
          /\ final_file' = Some(HumanizerOutput)
          /\ \E reply \in layouts \ {"error"}, w \in writes :
               /\ extra_files' = enhance_layout(extra_files, reply, w)
               /\ result' = Some(WorkflowResult(HumanizerOutput, editor_feedback[1],
                                                fact_check[1], authenticity_check[1],
                                                revision_history))
          /\ pc' = "done"
          /\ UNCHANGED raised
       \/ /\ CanSucceed("humanizer")
          /\ current_article' = HumanizerOutput
          /\ next_text' = next_text + 1
          /\ final_file' = Some(HumanizerOutput)
          /\ "error" \in layouts
          /\ \E err \in RaisedBy(faults) :
               /\ pc' = "raised"
               /\ raised' = Some([role |-> "layout", err |-> err, used |-> 1,
                                  delays |-> <<>>])
          /\ UNCHANGED <<extra_files, result>>
       \/ /\ \E b \in Failing("humanizer", faults) :
               Raise("humanizer", b, Call("humanizer", b))
          /\ UNCHANGED <<current_article, next_text, final_file, extra_files, result>>
       \/ /\ CanSucceed("humanizer")
          /\ WriteFails("article_final")
          /\ \E w \in Failures(writes) :
               final_file' = FailedFile(final_file, HumanizerOutput, w)
          /\ UNCHANGED <<current_article, next_text, extra_files, result>>
    /\ UNCHANGED <<published, resume_path, toolVars, researchVars, max_iterations, full_cycle,
                   draft_file, article_files, editor_files,
                   fact_check_files, authenticity_files, runs, cycleVars, mode,
                   start_version, revision_num, previous_feedback, revision_history,
                   research_findings, combined_feedback, researched, rewrites,
                   exit_via>>

\* the replies of the generation call of MediumFormatterAgent: a JSON object,
\* one with an 'images' entry, a text that is no JSON (format_for_medium
\* falls back to the article), JSON that is no object (formatted.get raises
\* AttributeError, which its `except json.JSONDecodeError` lets through), or
\* the call raises
MediumReplies == {"json", "images", "text", "list", "error"}

\* the writes of the Medium files, one after the other, up to the first that
\* fails: the files left in the directory and whether a write failed
MediumWrites(reply, with_images, writes) ==
    LET md    == {[files |-> IF w = "cut" THEN {MediumPath} ELSE {}, failed |-> TRUE] :
                     w \in Failures(writes)}
        html  == {[files |-> {MediumPath}
                                \cup (IF w = "cut" THEN {MediumHtmlPath} ELSE {}),
                   failed |-> TRUE] : w \in Failures(writes)}
        both  == {MediumPath, MediumHtmlPath}
        image == IF with_images /\ reply = "images"
                 THEN {[files |-> both \cup (IF w = "noopen" THEN {} ELSE {ImagesPath}),
                        failed |-> w # "written"] : w \in writes}
                 ELSE {[files |-> both, failed |-> FALSE]}
    IN  md \cup html \cup image

\* the error format_for_medium raises, if it does
MediumErrors(reply, faults) ==
    CASE reply = "error" -> RaisedBy(faults)
      [] reply = "list"  -> {[eventStream |-> FALSE, msg |-> "AttributeError"]}
      [] OTHER           -> {}

\* agent.py __main__ after process_article returned: article_final.md is
\* written again (no try), the article is formatted for Medium and the
\* Medium files are written inside one try whose except only logs, then
\* article_final.html is written (no try)
PublishMain(faults, mediums, writes) ==
    /\ mode = "fresh"
    /\ draft_file # None
    /\ \/ /\ WriteFails("article_final")
          /\ \E w \in Failures(writes) :
               final_file' = FailedFile(final_file, result[1].final_article, w)
          /\ UNCHANGED extra_files
       \/ /\ final_file' = Some(result[1].final_article)
          /\ \E reply \in mediums, w \in writes :
               \E medium \in IF MediumErrors(reply, faults) # {}
                              THEN {{}}
                              ELSE {m.files : m \in MediumWrites(reply, TRUE, writes)} :
                 /\ extra_files' = extra_files \cup medium
                        \cup (IF w = "noopen" THEN {} ELSE {FinalHtmlPath})
                 /\ IF w = "written"
                    THEN UNCHANGED <<pc, raised>>
                    ELSE WriteFails("article_final")

\* editorial_workflow.py __main__ after process_article returned:
\* article_final.md is written again (no try)
PublishScript(writes) ==
    /\ mode = "fresh"
    /\ draft_file = None
    /\ \/ /\ WriteFails("article_final")
          /\ \E w \in Failures(writes) :
               final_file' = FailedFile(final_file, result[1].final_article, w)
       \/ /\ final_file' = Some(result[1].final_article)
          /\ UNCHANGED <<pc, raised>>
    /\ UNCHANGED extra_files

\* resume_workflow.py after resume_from_version returned: the article is
\* formatted for Medium and article_medium.md and article_medium.html are
\* written, all in no try
PublishResume(faults, mediums, writes) ==
    /\ mode = "resume"
    /\ \E reply \in mediums :
         \/ \E err \in MediumErrors(reply, faults) :
              /\ pc' = "raised"
              /\ raised' = Some([role |-> "medium_formatter", err |-> err,
                                 used |-> 1, delays |-> <<>>])
              /\ UNCHANGED extra_files
         \/ /\ MediumErrors(reply, faults) = {}
            /\ \E m \in MediumWrites(reply, FALSE, writes) :
                 /\ extra_files' = extra_files \cup m.files
                 /\ IF m.failed
                    THEN WriteFails("article_medium")
                    ELSE UNCHANGED <<pc, raised>>
    /\ UNCHANGED final_file

\* the reply of the formatter explored over several runs: a JSON object
MediumRepliesDir == {"json"}

\* what the caller does with the result of a run, once the run has returned:
\* the statements that follow the call in agent.py, editorial_workflow.py
\* and resume_workflow.py
Publish(faults, mediums, writes) ==
    /\ pc = "done"
    /\ ~published
    /\ published' = TRUE
    /\ \/ PublishMain(faults, mediums, writes)
       \/ PublishScript(writes)
       \/ PublishResume(faults, mediums, writes)
    /\ UNCHANGED <<resume_path, toolVars, researchVars, max_iterations, full_cycle,
                   draft_file, article_files, editor_files,
                   fact_check_files, authenticity_files, runs, next_text, cycleVars,
                   runVars, result>>

Next ==
    \/ Main(MainResults, MainSaves, Behaviours, Disk)
    \/ EditorStep(EditorOutputs, EditorOutputsOther, Behaviours, Disk)
    \/ FactCheckStep(FactCheckOutputs, FactCheckOutputsOther, Behaviours, Disk)
    \/ AuthenticityStep(AuthenticityOutputs, AuthenticityOutputsOther, Behaviours, Disk)
    \/ GateCheck
    \/ ResearchStep
    \/ RewriteStep(Behaviours, Disk)
    \/ Finalize(Behaviours, LayoutRepliesRun, Disk)
    \/ Publish(Behaviours, MediumReplies, Disk)

Spec == Init /\ [][Next]_vars

\* the output directory over several runs, with fewer distinct verdicts
NextDir ==
    \/ Main(MainResults, MainSaves, BehavioursDir, SoundDisk)
    \/ ResumeFromVersion
    \/ ResumeRewrite(BehavioursDir, SoundDisk)
    \/ EditorStep(EditorOutputsDir, EditorOutputsDir, BehavioursDir, SoundDisk)
    \/ FactCheckStep(FactCheckOutputsDir, FactCheckOutputsDir, BehavioursDir, SoundDisk)
    \/ AuthenticityStep(AuthenticityOutputsDir, AuthenticityOutputsDir, BehavioursDir,
                        SoundDisk)
    \/ GateCheck
    \/ ResearchStep
    \/ RewriteStep(BehavioursDir, SoundDisk)
    \/ Finalize(BehavioursDir, LayoutRepliesDir, SoundDisk)
    \/ Publish(BehavioursDir, MediumRepliesDir, SoundDisk)

InitDir == InitWith(1..MaxCapDir, {0})

SpecDir == InitDir /\ [][NextDir]_vars

\* runs on one directory whose fact-checker reports a dead source link, so
\* that targeted research is triggered in every cycle that fails the gate
NextPool ==
    \/ Main(MainResultsAll, MainSavesAll, BehavioursDir, Disk)
    \/ ProcessArticle
    \/ ResumeFromVersion
    \/ ResumeRewrite(BehavioursDir, Disk)
    \/ EditorStep({Bare(E_B)}, {Bare(E_B)}, BehavioursDir, Disk)
    \/ FactCheckStep({Bare(F_85)}, {Bare(F_85)}, BehavioursDir, Disk)
    \/ AuthenticityStep(AuthenticityOutputsDir, AuthenticityOutputsDir, BehavioursDir, Disk)
    \/ GateCheck
    \/ ResearchStep
    \/ RewriteStep(BehavioursDir, Disk)
    \/ Finalize(BehavioursDir, LayoutReplies, Disk)
    \/ Publish(BehavioursDir, MediumReplies, Disk)

InitPool == InitOn(1..MaxCap, {0}, EarlierCaches)

SpecPool == InitPool /\ [][NextPool]_vars

\* the steps of a run that has started: the program is sequential and every
\* external call returns or raises, so a step that can be taken is taken;
\* starting a run or a resume is the operator's choice
RunStepDir ==
    \/ ResumeRewrite(BehavioursDir, Disk)
    \/ EditorStep(EditorOutputsDir, EditorOutputsDir, BehavioursDir, Disk)
    \/ FactCheckStep(FactCheckOutputsDir, FactCheckOutputsDir, BehavioursDir, Disk)
    \/ AuthenticityStep(AuthenticityOutputsDir, AuthenticityOutputsDir, BehavioursDir, Disk)
    \/ GateCheck
    \/ ResearchStep
    \/ RewriteStep(BehavioursDir, Disk)
    \/ Finalize(BehavioursDir, LayoutRepliesDir, Disk)
    \/ Publish(BehavioursDir, MediumRepliesDir, Disk)

\* the runs on one directory whose writes may fail
NextDirLive ==
    \/ Main(MainResults, MainSaves, BehavioursDir, Disk)
    \/ ResumeFromVersion
    \/ RunStepDir

\* the directories on which termination is checked
InitDirLive == InitWith(1..MaxCap, {0})

SpecDirLive == InitDirLive /\ [][NextDirLive]_vars /\ WF_vars(RunStepDir)

\* every kind of run on one directory: the one agent.py starts with its
\* draft, the one editorial_workflow.py starts as a script on an article it
\* read, and the resumes that follow either
NextRuns ==
    \/ Main(MainResults, MainSaves, BehavioursDir, Disk)
    \/ ProcessArticle
    \/ ResumeFromVersion
    \/ RunStepDir

InitRuns == InitWith(1..MaxCap, {0})

SpecRuns == InitRuns /\ [][NextRuns]_vars

\* ------------------------------------------- the issue merge on its own
Severities == {"CRITICAL", "HIGH", "MEDIUM", "LOW"}

\* the lists of at most n severities
SeverityLists(n) == UNION {[1..len -> Severities] : len \in 0..n}

\* verdicts whose k-th item is known by its position k
MergeFactChecks ==
    {FactCheck(70, [k \in 1..Len(sevs) |-> Issue(sevs[k], "claim", "issue", k)], FALSE) :
        sevs \in SeverityLists(MaxIssues)}
MergeAuthenticityChecks ==
    {AuthenticityCheck(60, [k \in 1..Len(sevs) |-> Pattern(sevs[k], k)], FALSE) :
        sevs \in SeverityLists(MaxPatterns)}
CriticalTexts == <<"first must-fix", "second must-fix", "third must-fix">>
MergeEditorVerdicts ==
    {EditorVerdict("B", SubSeq(CriticalTexts, 1, len), <<>>, FALSE) : len \in 0..MaxCritical}

InitCombine ==
    /\ InitBase({1}, {0})
    /\ InitResearch({QuietSources})
    /\ pc = "combine"
    /\ editor_feedback \in {Some(v) : v \in MergeEditorVerdicts}
    /\ fact_check \in {Some(v) : v \in MergeFactChecks}
    /\ authenticity_check \in {Some(v) : v \in MergeAuthenticityChecks}

\* the feedback for the writer is combined from the three verdicts
CombineIssues ==
    /\ pc = "combine"
    /\ combined_feedback' = Some(CombinedFeedback(editor_feedback[1], fact_check[1],
                                                  authenticity_check[1], None))
    /\ pc' = "combined"
    /\ UNCHANGED <<published, resume_path, toolVars, researchVars, max_iterations, full_cycle, dirVars, runs, next_text,
                   cycleVars, mode, current_article, start_version, revision_num,
                   previous_feedback, revision_history, research_findings,
                   researched, rewrites, exit_via, result, raised>>

NextCombine == CombineIssues

SpecCombine == InitCombine /\ [][NextCombine]_vars

\* ----------------------------------------------- research(topic, use_cache)

\* mutant: the cache is never consulted
CacheUsable_never(use_cache, file, cache) == FALSE

\* use_cache and cache_file.exists()
CacheUsable(use_cache, file, cache) == use_cache /\ file \in DOMAIN cache

\* the reply to the topic analysis prompt: a JSON list of questions, an
\* empty JSON list, a text that is not JSON, or the error of the generation
\* call (self(prompt) is outside the try of _analyze_topic)
AnalysisReply(src) ==
    CASE src.analysis = "questions" ->
            [kind |-> "json", value |-> <<"question 1", "question 2">>]
      [] src.analysis = "empty" -> [kind |-> "json", value |-> <<>>]
      [] src.analysis = "text" -> [kind |-> "text", value |-> <<>>]
      [] src.analysis = "error" -> [kind |-> "error", value |-> <<>>]

\* ResearchAgent._analyze_topic: the parsed questions, or the topic itself
_analyze_topic(topic, reply) ==
    IF reply.kind = "json" THEN reply.value ELSE <<topic>>

\* tools.search_web for one question: the URLs found
search_web(src) == IF src.web = "none" THEN <<>> ELSE <<"url">>

\* ResearchAgent._gather_findings: per question the knowledge base results,
\* then the pages of the URLs found that could be crawled
RECURSIVE _gather_findings(_, _)
_gather_findings(qs, src) ==
    IF qs = <<>> THEN <<>>
    ELSE LET question == Head(qs)
             kb_results == [k \in 1..src.knowledge_base |->
                               [type |-> "knowledge_base", about |-> question]]
             pages == IF src.web = "page"
                      THEN [k \in 1..Len(search_web(src)) |->
                               [type |-> "web", about |-> question]]
                      ELSE <<>>
         IN  kb_results \o pages \o _gather_findings(Tail(qs), src)

\* the reply to the synthesis prompt in the given iteration: a JSON object,
\* a text that is not JSON, a JSON list, or the error of the generation call
\* (self(prompt) is outside the try of _synthesize)
SynthesisReply(src, it) ==
    CASE src.synthesis = "list" -> [kind |-> "list", value |-> <<1, 2>>]
      [] src.synthesis = "error" -> [kind |-> "error", value |-> <<>>]
      [] src.synthesis = "no_gaps" ->
            [kind |-> "json", value |-> [confidence |-> 60, gaps |-> <<>>]]
      [] src.synthesis = "text" ->
            [kind |-> "text", value |-> [confidence |-> 0, gaps |-> <<>>]]
      [] src.synthesis = "confident_later" ->
            [kind |-> "json",
             value |-> [confidence |-> IF it >= 2 THEN 85 ELSE 40, gaps |-> <<"gap">>]]
      [] src.synthesis = "gaps" ->
            [kind |-> "json", value |-> [confidence |-> 40, gaps |-> <<"gap">>]]
      [] src.synthesis = "text_later" ->
            IF it >= 2
            THEN [kind |-> "text", value |-> [confidence |-> 0, gaps |-> <<>>]]
            ELSE [kind |-> "json", value |-> [confidence |-> 40, gaps |-> <<"gap">>]]

\* mutant: no fallback for a reply that is not JSON
_synthesize_noFallback(reply) == reply.value
\* ResearchAgent._synthesize: the parsed synthesis, or the fallback
_synthesize(reply) ==
    IF reply.kind \in {"json", "list"} THEN reply.value
    ELSE [confidence |-> 50, gaps |-> <<>>]

\* mutant: the loop ignores the confidence
LoopCondition_capOnly(it, conf) == it < MAX_RESEARCH_ITERATIONS
\* the condition of the research loop
LoopCondition(it, conf) == it < MAX_RESEARCH_ITERATIONS /\ conf < CONFIDENCE_THRESHOLD

\* research(): the cache check; on a hit the cached result is returned, else
\* the topic is analysed and the loop is entered
ResearchCall ==
    /\ r_pc \in {"idle", "returned", "raised"}
    /\ r_calls < MaxResearchCalls
    /\ \E topic \in Topics, use_cache \in BOOLEAN :
         LET file   == cache_file(topic)
             cached == IF CacheUsable(use_cache, file, research_cache)
                       THEN json_load(research_cache[file])
                       ELSE None
         IN  /\ r_topic' = topic
             /\ r_use_cache' = use_cache
             /\ r_calls' = r_calls + 1
             /\ IF cached # None
                THEN /\ research_result' = cached
                     /\ r_pc' = "returned"
                     /\ invoked' = NoneInvoked
                     /\ questions' = <<>>
                ELSE /\ research_result' = None
                     /\ invoked' = [NoneInvoked EXCEPT !.analysis = 1]
                     /\ IF AnalysisReply(sources).kind = "error"
                        THEN r_pc' = "raised" /\ questions' = <<>>
                        ELSE /\ r_pc' = "loop"
                             /\ questions' = _analyze_topic(topic, AnalysisReply(sources))
             /\ all_findings' = <<>>
             /\ confidence' = 0
             /\ iteration' = 0
             /\ synthesis' = None
    /\ UNCHANGED <<toolVars, workflowVars, sources, research_cache>>

\* one iteration of the research loop; it raises out of research(), with
\* nothing saved, when the client of the knowledge base cannot be built
\* (boto3.client is outside the try of query_knowledge_base), when the
\* generation call of the synthesis raises, and when the synthesis is JSON
\* but no object (synthesis.get)
ResearchIteration ==
    /\ r_pc = "loop"
    /\ LoopCondition(iteration, confidence)
    /\ LET it    == iteration + 1
           wiki  == IF it = 1 /\ sources.encyclopedia = "page"
                    THEN <<[type |-> "background", about |-> r_topic]>>
                    ELSE <<>>
           found == all_findings \o wiki \o _gather_findings(questions, sources)
           reply == SynthesisReply(sources, it)
           syn   == _synthesize(reply)
           looked_up == [invoked EXCEPT
                 !.encyclopedia = @ + (IF it = 1 THEN 1 ELSE 0),
                 !.knowledge_base = @ + Len(questions),
                 !.web_search = @ + Len(questions),
                 !.crawl = @ + Len(questions) * Len(search_web(sources))]
       IN  /\ iteration' = it
           /\ IF questions # <<>> /\ sources.kb_client = "error"
              THEN /\ r_pc' = "raised"
                   /\ all_findings' = all_findings \o wiki
                   /\ invoked' = [invoked EXCEPT
                         !.encyclopedia = @ + (IF it = 1 THEN 1 ELSE 0),
                         !.knowledge_base = @ + 1]
                   /\ UNCHANGED <<synthesis, confidence, questions>>
              ELSE IF reply.kind = "error"
              THEN /\ r_pc' = "raised"
                   /\ all_findings' = found
                   /\ invoked' = [looked_up EXCEPT !.synthesis = @ + 1]
                   /\ UNCHANGED <<synthesis, confidence, questions>>
              ELSE IF reply.kind = "list"
              THEN /\ r_pc' = "raised"
                   /\ all_findings' = found
                   /\ synthesis' = Some(syn)
                   /\ invoked' = [looked_up EXCEPT !.synthesis = @ + 1]
                   /\ UNCHANGED <<confidence, questions>>
              ELSE /\ all_findings' = found
                   /\ synthesis' = Some(syn)
                   /\ confidence' = syn.confidence
                   /\ questions' = syn.gaps
                   /\ invoked' = [looked_up EXCEPT !.synthesis = @ + 1]
                   /\ r_pc' = IF syn.gaps = <<>> \/ ~LoopCondition(it, syn.confidence)
                              THEN "save" ELSE "loop"
    /\ UNCHANGED <<toolVars, workflowVars, sources, research_cache, r_calls, r_topic, r_use_cache,
                   research_result>>

\* the result is built, written to the cache and returned
ResearchSave ==
    /\ r_pc = "save"
    /\ LET res == [topic |-> r_topic, findings |-> all_findings,
                   synthesis |-> synthesis[1], confidence |-> confidence,
                   iterations |-> iteration, timestamp |-> r_calls]
           file == cache_file(r_topic)
       IN  \E outcome \in {"written", "mkdir_fails", "open_fails", "write_fails"} :
             /\ research_cache' = SaveCache(research_cache, file, res, outcome)
             /\ IF outcome = "mkdir_fails"
                THEN r_pc' = "raised" /\ research_result' = None
                ELSE r_pc' = "returned" /\ research_result' = Some(res)
    /\ UNCHANGED <<toolVars, workflowVars, sources, r_calls, r_topic, r_use_cache, questions,
                   all_findings, synthesis, confidence, iteration, invoked>>

NextResearch == ResearchCall \/ ResearchIteration \/ ResearchSave

InitResearchSpec ==
    /\ InitBase({1}, {0})
    /\ pc = "idle"
    /\ editor_feedback = None
    /\ fact_check = None
    /\ authenticity_check = None
    /\ InitResearch(Sources)

SpecResearch == InitResearchSpec /\ [][NextResearch]_vars

\* ------------------------------------------------ the Source Gateway lookups
\* what can go wrong in the operations a lookup performs
LookupFaults ==
    {"none", "import", "client", "transport", "status", "parse", "no_file", "bad_file"}
\* the environment of one lookup: the optional configuration values, the
\* fault its first provider meets, the fault the secondary web-search
\* provider meets, and what the provider answers (an AI answer, so many
\* records, a record without title)
LookupEnvs ==
    [api_key : BOOLEAN, kb_id : BOOLEAN, fault : LookupFaults,
     fallback : {"none", "import", "transport"}, answer : BOOLEAN, hits : 0..MaxHits,
     untitled : BOOLEAN]
LookupFunctions ==
    {"search_google_news", "search_internet_duckduckgo", "search_internet",
     "query_knowledge_base", "search_rss_feeds", "crawl_web", "search_web"}

Returned(value, contacted) ==
    [raised |-> None, value |-> value, contacted |-> contacted]
Raises(error, contacted) ==
    [raised |-> Some(error), value |-> <<>>, contacted |-> contacted]
Hits(type, provider, n) ==
    [i \in 1..n |-> [type |-> type, source |-> <<provider, i>>]]
Min(a, b) == IF a < b THEN a ELSE b

\* the whole body is one try: ImportError and Exception both return []
search_google_news(env) ==
    IF env.fault \in {"import", "client", "transport", "status", "parse"}
    THEN Returned(<<>>, <<"google_news">>)
    ELSE Returned(Hits("google_news", "google_news", env.hits), <<"google_news">>)

\* the whole body is one try: ImportError and Exception both return []
search_internet_duckduckgo(fault, hits) ==
    IF fault \in {"import", "client", "transport", "status", "parse"}
    THEN Returned(<<>>, <<"duckduckgo">>)
    ELSE Returned(Hits("web_search", "duckduckgo", hits), <<"duckduckgo">>)

\* the primary request fails: requests.post, raise_for_status or
\* response.json() raises
PrimaryRequestFails(env) == env.fault \in {"transport", "status", "parse"}
\* item.get('title')[:60] in the log line of the record loop raises TypeError
\* for a record without title
RecordLoopFails(env) == env.untitled /\ env.hits > 0

\* the primary provider when a key is configured; any exception inside the
\* try (request, status, parsing, record loop) falls through to the secondary
search_internet(env) ==
    LET secondary == search_internet_duckduckgo(env.fallback, env.hits)
        summary == IF env.answer
                   THEN <<[type |-> "summary", source |-> <<"tavily_ai_summary", 0>>]>>
                   ELSE <<>>
    IN  IF env.api_key
        THEN IF PrimaryRequestFails(env) \/ RecordLoopFails(env)
             THEN [secondary EXCEPT !.contacted = <<"tavily">> \o @]
             ELSE Returned(summary \o Hits("web_search", "tavily", env.hits),
                           <<"tavily">>)
        ELSE secondary

\* no knowledge-base id: []; the client is constructed before the try; the
\* retrieve call and the reading of its response are inside it
query_knowledge_base(env) ==
    IF ~env.kb_id THEN Returned(<<>>, <<>>)
    ELSE IF env.fault = "client" THEN Raises("client", <<>>)
    ELSE IF env.fault \in {"transport", "status", "parse"}
         THEN Returned(<<>>, <<"knowledge_base">>)
    ELSE Returned(Hits("knowledge_base", "knowledge_base", env.hits),
                  <<"knowledge_base">>)

\* only FileNotFoundError is caught; an unreadable file, a file that is not
\* JSON and an entry that is not an object raise out of the function
search_rss_feeds(env) ==
    IF env.fault = "no_file" THEN Returned(<<>>, <<"rss_cache">>)
    ELSE IF env.fault \in {"bad_file", "parse"} THEN Raises(env.fault, <<"rss_cache">>)
    ELSE Returned(Hits("rss", "rss_cache", Min(env.hits, 5)), <<"rss_cache">>)

\* the whole body is one try: any exception returns {'url', 'error'}
crawl_web(env) ==
    IF env.fault \in {"transport", "status", "parse"}
    THEN Returned(<<[type |-> "error", source |-> <<"web", 0>>]>>, <<"web">>)
    ELSE Returned(<<[type |-> "page", source |-> <<"web", 0>>]>>, <<"web">>)

\* tools.search_web as a lookup of its own: the sources of the web_search
\* records of search_internet
search_web_lookup(env) ==
    LET found == search_internet(env)
        urls == SelectSeq(found.value, LAMBDA r : r.type = "web_search")
    IN  [found EXCEPT !.value = [i \in 1..Len(urls) |-> urls[i].source]]

Apply(fn, env) ==
    CASE fn = "search_google_news" -> search_google_news(env)
      [] fn = "search_internet_duckduckgo" ->
             search_internet_duckduckgo(env.fault, env.hits)
      [] fn = "search_internet" -> search_internet(env)
      [] fn = "query_knowledge_base" -> query_knowledge_base(env)
      [] fn = "search_rss_feeds" -> search_rss_feeds(env)
      [] fn = "crawl_web" -> crawl_web(env)
      [] fn = "search_web" -> search_web_lookup(env)

\* one lookup made by a caller of the gateway
Lookup ==
    /\ lookup = None
    /\ \E fn \in LookupFunctions, env \in LookupEnvs :
          /\ lookup' = Some([fn |-> fn, env |-> env])
          /\ lookup_outcome' = Some(Apply(fn, env))
    /\ UNCHANGED <<workflowVars, researchVars, _url_cache, v_calls>>

NextGateway == Lookup

SpecGateway == InitWith({1}, {0}) /\ [][NextGateway]_vars

\* ------------------------------------- do_targeted_research on its own
TargetedRequests ==
    {[claim |-> "claim-2", issue |-> "Missing citation for the 40% figure",
      priority |-> "high"],
     [claim |-> "In 2023 the grid added 40% more storage", issue |-> "Link is dead",
      priority |-> "critical"],
     [claim |-> "Add more research on storage costs",
      issue |-> "Editor requested more research", priority |-> "medium"],
     [claim |-> "", issue |-> "Source URL missing", priority |-> "high"]}
RequestLists == UNION {[1..len -> TargetedRequests] : len \in 0..MaxRequests}
SearchAnswers ==
    {[ok |-> FALSE, records |-> 0]} \cup {[ok |-> TRUE, records |-> n] : n \in 0..MaxHits}

\* one call of do_targeted_research; the searches it issued are kept as the
\* providers contacted
TargetedResearchCall ==
    /\ lookup = None
    /\ \E requests \in RequestLists :
         \E answers \in [1..Len(requests) -> SearchAnswers] :
            /\ lookup' = Some([fn |-> "do_targeted_research", requests |-> requests,
                               answers |-> answers])
            /\ lookup_outcome' = Some(Returned(TargetedFindings(requests, answers),
                                               TargetedSearches(requests)))
    /\ UNCHANGED <<workflowVars, researchVars, _url_cache, v_calls>>

NextTargeted == TargetedResearchCall

SpecTargeted == InitWith({1}, {0}) /\ [][NextTargeted]_vars

\* ------------------------------------------ the prompt of revise_article
\* the longest issue list of a fact-check verdict, the longest pattern list
\* of an authenticity verdict and the most critical issues of an editor
\* verdict handed to the writer
MaxFactIssues == 11
MaxAiPatterns == 6
MaxEditorIssues == 2

\* fact_issues[:10] and ai_patterns[:5]
FactIssuesShown == 10
AiPatternsShown == 5

\* s[:n]
Leading(s, n) == SubSeq(s, 1, Min(n, Len(s)))

\* mutant: the user's text is appended like any other feedback
UserSection_unmarked(user) ==
    IF user = None THEN None
    ELSE Some([heading |-> "USER FEEDBACK", text |-> user[1], first |-> FALSE])
\* `if user_feedback_text:` the section appended to the feedback summary and
\* requirement 9 of the prompt
UserSection(user) ==
    IF user = None THEN None
    ELSE Some([heading |-> "USER FEEDBACK (HIGHEST PRIORITY)", text |-> user[1],
               first |-> TRUE])

\* the lists revise_article puts into the prompt it sends to the generation
\* call: the editor's critical issues and improvements, the first ten
\* CRITICAL/HIGH fact-check issues, the first five authenticity patterns and
\* the user's feedback; combined_issues is not read
revise_article_prompt(feedback) ==
    LET flagged(i) == i.severity \in {"CRITICAL", "HIGH"}
        fact_issues == SelectSeq(feedback.fact_checker.issues, flagged)
        ai_patterns == feedback.authenticity.ai_patterns_found
    IN  [grade |-> feedback.editor.grade,
         critical_issues |-> feedback.editor.critical_issues,
         improvements |-> feedback.editor.improvements,
         verification_score |-> feedback.fact_checker.verification_score,
         fact_issues |-> Leading(fact_issues, FactIssuesShown),
         authenticity_score |-> feedback.authenticity.authenticity_score,
         patterns_found |-> Len(ai_patterns),
         ai_patterns |-> Leading(ai_patterns, AiPatternsShown),
         user |-> UserSection(feedback.user)]

\* verdicts of a cycle that did not pass: n fact-check issues that alternate
\* CRITICAL and HIGH, m patterns that alternate HIGH and MEDIUM (the one at
\* position low, if any, is LOW), and the editor's critical issues
ManyIssues(n, low) ==
    [i \in 1..n |->
        Issue(IF i = low THEN "LOW" ELSE IF i % 2 = 1 THEN "CRITICAL" ELSE "HIGH",
              "Statistic", "Unverified figure", <<"claim", i>>)]
ManyPatterns(m, low) ==
    [i \in 1..m |->
        Pattern(IF i = low THEN "LOW" ELSE IF i % 2 = 1 THEN "HIGH" ELSE "MEDIUM",
                <<"pattern", i>>)]
EditorIssues(e) == SubSeq(<<"No thesis", "Weak ending", "No sources">>, 1, e)

\* one call of revise_article with the feedback _continue_workflow builds
RevisionPromptCall ==
    /\ lookup = None
    /\ \E n \in 0..MaxFactIssues, m \in 0..MaxAiPatterns, e \in 0..MaxEditorIssues :
         \E lowIssue \in 0..n, lowPattern \in 0..m :
            LET feedback ==
                  CombinedFeedback(
                     EditorVerdict("C", EditorIssues(e), <<>>, FALSE),
                     FactCheck(60, ManyIssues(n, lowIssue), FALSE),
                     AuthenticityCheck(50, ManyPatterns(m, lowPattern), FALSE),
                     None)
            IN  /\ lookup' = Some([fn |-> "revise_article", feedback |-> feedback])
                /\ lookup_outcome' =
                      Some(Returned(revise_article_prompt(feedback), <<"generation">>))
    /\ UNCHANGED <<workflowVars, researchVars, _url_cache, v_calls>>

NextPrompt == RevisionPromptCall

SpecPrompt == InitWith({1}, {0}) /\ [][NextPrompt]_vars

\* ------------------------------ the topic rebuilt from a directory name
\* A text is the sequence of its characters.  Topics are made of letters,
\* underscores and single spaces between words; a word begins and ends with a
\* letter.  The two fields of the timestamp stand for their 8 and 6 digits.
MaxTopicLen == 5
Letters == {"a", "b"}
Date == "<8 digits>"
Time == "<6 digits>"
TopicTexts ==
    {t \in UNION {[1..n -> Letters \cup {"_", " "}] : n \in 1..MaxTopicLen} :
        /\ t[1] \in Letters /\ t[Len(t)] \in Letters
        /\ \A i \in 1..Len(t) :
              t[i] = " " => (t[i - 1] \in Letters /\ t[i + 1] \in Letters)
        /\ \A i \in 1..Len(t) :
              t[i] = "_" => (t[i - 1] # " " /\ t[i + 1] # " ")}

\* str.replace(old, new) for single characters
replace(text, old, new) == [i \in 1..Len(text) |-> IF text[i] = old THEN new ELSE text[i]]

\* agent.py: f"{topic.replace(' ', '_')}_{timestamp}", the timestamp being
\* "%Y%m%d_%H%M%S"
workflow_dir(topic) == replace(topic, " ", "_") \o <<"_", Date, "_", Time>>

\* re.search(r'(.+)_\d{8}_\d{6}', name): group 1 of the match, the leftmost
\* start and the longest group; None when the pattern does not occur
topic_match(name) ==
    LET ends == {k \in 1..(Len(name) - 4) :
                    SubSeq(name, k + 1, k + 4) = <<"_", Date, "_", Time>>}
    IN  IF ends = {} THEN None
        ELSE Some(SubSeq(name, 1, CHOOSE k \in ends : \A m \in ends : m <= k))

\* resume_from_version: the topic of the resumed run
resumed_topic(name) ==
    IF topic_match(name) # None THEN replace(topic_match(name)[1], "_", " ")
    ELSE <<"U", "n", "k", "n", "o", "w", "n", " ", "T", "o", "p", "i", "c">>

\* text.split('_')[0]
first_piece(text) ==
    LET marks == {i \in 1..Len(text) : text[i] = "_"}
    IN  IF marks = {} THEN text
        ELSE SubSeq(text, 1, (CHOOSE i \in marks : \A j \in marks : i <= j) - 1)

\* resume_workflow.py: the topic given to the formatting step
formatted_topic(name) == replace(first_piece(name), "_", " ")

\* a run creates the directory of a topic; a resume and the resume script
\* rebuild the topic from its name
TopicRoundTrip ==
    /\ lookup = None
    /\ \E topic \in TopicTexts :
         LET name == workflow_dir(topic) IN
         /\ lookup' = Some([fn |-> "resume_topic", topic |-> topic, name |-> name])
         /\ lookup_outcome' =
               Some(Returned([workflow |-> resumed_topic(name),
                              script   |-> formatted_topic(name)], <<>>))
    /\ UNCHANGED <<workflowVars, researchVars, _url_cache, v_calls>>

NextTopic == TopicRoundTrip

SpecTopic == InitWith({1}, {0}) /\ [][NextTopic]_vars

\* ------------------------------------------------- verify_url and its memo
Urls == {"https://a.example/report", "https://b.example/study"}
\* what requests.get and the parse of the page meet: a response with a status
\* code, an exception of the request, or a page of status 200 whose parse
\* raises
NetOutcomes == {"accessible", "blocked", "not_found", "timeout", "error", "unparsed"}
\* the outcomes in which the result dict is built to its end
Responses == {"accessible", "blocked", "not_found"}
StatusCode(net) ==
    CASE net = "accessible" -> 200 [] net = "blocked" -> 403 [] net = "not_found" -> 404

\* the dict built from a response
ResponseResult(url, net) ==
    [url |-> url, accessible |-> net = "accessible", status_code |-> Some(StatusCode(net)),
     error |-> None]
\* the dict returned from the except branches
ErrorResult(url, net) ==
    [url |-> url, accessible |-> FALSE, status_code |-> None,
     error |-> Some(CASE net = "timeout"  -> "timeout"
                      [] net = "unparsed" -> "ParserRejectedMarkup"
                      [] OTHER            -> "ConnectionError")]

\* verify_url is a tool of the fact-checker's Agent, which may run the tool
\* calls of one reply side by side, and the function takes no lock: a call is
\* at its request (the memo test missed), at the store of its result, or has
\* returned

\* `if url in _url_cache: return json.dumps(_url_cache[url])`: a call begins;
\* it returns the entry of the URL, or goes on to the request
VerifyCall ==
    /\ Len(v_calls) < MaxVerifyCalls
    /\ \E url \in Urls :
         v_calls' = Append(v_calls,
                           IF url \in DOMAIN _url_cache
                           THEN [url |-> url, requested |-> FALSE, at |-> "returned",
                                 result |-> Some(_url_cache[url])]
                           ELSE [url |-> url, requested |-> FALSE, at |-> "request",
                                 result |-> None])
    /\ UNCHANGED <<workflowVars, researchVars, lookup, lookup_outcome, _url_cache>>

\* `response = requests.get(...)` and the result dict built from it, or the
\* except branch that returns the error dict without a store
VerifyRequest ==
    /\ \E i \in DOMAIN v_calls, net \in NetOutcomes :
         /\ v_calls[i].at = "request"
         /\ v_calls' =
              [v_calls EXCEPT ![i] =
                  IF net \in Responses
                  THEN [url |-> @.url, requested |-> TRUE, at |-> "store",
                        result |-> Some(ResponseResult(@.url, net))]
                  ELSE [url |-> @.url, requested |-> TRUE, at |-> "returned",
                        result |-> Some(ErrorResult(@.url, net))]]
    /\ UNCHANGED <<workflowVars, researchVars, lookup, lookup_outcome, _url_cache>>

\* `_url_cache[url] = result; return json.dumps(result)`
VerifyStore ==
    /\ \E i \in DOMAIN v_calls :
         /\ v_calls[i].at = "store"
         /\ _url_cache' = WriteFile(_url_cache, v_calls[i].url, v_calls[i].result[1])
         /\ v_calls' = [v_calls EXCEPT ![i].at = "returned"]
    /\ UNCHANGED <<workflowVars, researchVars, lookup, lookup_outcome>>

NextVerify == VerifyCall \/ VerifyRequest \/ VerifyStore

SpecVerify == InitWith({1}, {0}) /\ [][NextVerify]_vars

\* ======================================================== the properties

\* the gate of the current cycle has been evaluated on the three verdicts held
GateEvaluated == pc \in {"research", "rewrite", "finalize", "done"}

\* C1: in every review cycle the loop exits as approved if and only if the
\* editor grade is A or A+ and the fact-check verdict and the authenticity
\* verdict both say ready_to_publish.
C1_GateIsConjunction ==
    GateEvaluated =>
        ( exit_via = "approved"
          <=> /\ editor_feedback[1].grade \in {"A", "A+"}
              /\ fact_check[1].ready_to_publish = TRUE
              /\ authenticity_check[1].ready_to_publish = TRUE )

\* C1 witness: a cycle with editor A, fact-check not ready, authenticity ready
\* has gone through the gate and was not approved, the cap not being reached
C1_Witness ==
    /\ pc = "research"
    /\ editor_feedback[1].grade = "A"
    /\ ~fact_check[1].ready_to_publish
    /\ authenticity_check[1].ready_to_publish

\* C2 (as claimed): a run whose loop ended on the cap, the gate never having
\* passed, returns a result whose ready_to_publish is false.
C2_CapExitIsNotReady ==
    (pc = "done" /\ exit_via = "cap") =>
        (result # None /\ result[1].ready_to_publish = FALSE)

\* no reviewer reported ready in any cycle of the run so far
NeverReady ==
    \A k \in 1..Len(revision_history) :
        /\ ~revision_history[k].editor_ready
        /\ ~revision_history[k].fact_check_ready
        /\ ~revision_history[k].authenticity_ready

\* C3: a fresh run whose reviewers never report ready makes exactly
\* max_iterations review cycles and max_iterations - 1 rewrites, then returns
\* a result with total_revisions = max_iterations and ready_to_publish false.
C3_CapTermination ==
    (mode = "fresh" /\ NeverReady) =>
        /\ Len(revision_history) <= max_iterations
        /\ rewrites <= max_iterations - 1
        /\ pc = "done" =>
             /\ Len(revision_history) = max_iterations
             /\ rewrites = max_iterations - 1
             /\ result[1].total_revisions = max_iterations
             /\ result[1].ready_to_publish = FALSE

\* C3 witness: such a run with a cap of at least 2 has returned
C3_Witness ==
    /\ mode = "fresh" /\ pc = "done" /\ NeverReady
    /\ max_iterations >= 2
    /\ rewrites >= 1

\* the verdicts summarised by a RevisionRecord pass the joint gate
RecordPasses(rec) ==
    /\ rec.editor_grade \in {"A", "A+"}
    /\ rec.fact_check_ready
    /\ rec.authenticity_ready

\* C4: in a fresh run, when the gate passes in cycle k, cycle k is the last
\* cycle, exactly k - 1 rewrites were made, nothing but the finalization
\* follows, and the result has total_revisions = k and ready_to_publish true.
C4_StopsAtFirstPass ==
    mode = "fresh" =>
        \A k \in 1..Len(revision_history) :
            RecordPasses(revision_history[k]) =>
                /\ k = Len(revision_history)
                /\ k <= max_iterations
                /\ rewrites = k - 1
                /\ pc \in {"finalize", "done", "raised"}
                /\ pc = "done" =>
                     /\ result[1].total_revisions = k
                     /\ result[1].ready_to_publish = TRUE

\* C4 witness: not ready in cycle 1, all ready in cycle 2, the run returned
C4_Witness ==
    /\ mode = "fresh" /\ pc = "done"
    /\ Len(revision_history) = 2
    /\ ~RecordPasses(revision_history[1])
    /\ RecordPasses(revision_history[2])
    /\ rewrites = 1

\* the fact-check verdict holds a CRITICAL or HIGH sourcing/citation issue
HasSourcingIssue(fc) ==
    \E k \in 1..Len(fc.issues) :
        /\ fc.issues[k].severity \in {"CRITICAL", "HIGH"}
        /\ \/ LowerContains(fc.issues[k].type, "source")
           \/ LowerContains(fc.issues[k].issue, "citation")

\* C6 (as claimed): in a cycle whose gate fails below the cap, targeted
\* research is run if and only if the fact-check score is below 80 or a
\* CRITICAL/HIGH fact-check issue is a sourcing problem; in a cycle that
\* passes the gate or exits on the cap it is not run.
C6_ResearchRunsIffTriggered ==
    /\ pc = "rewrite" =>
         ( researched = "ran"
           <=> \/ fact_check[1].verification_score < 80
               \/ HasSourcingIssue(fact_check[1]) )
    /\ pc \in {"finalize", "done"} => researched = "no"

\* C7 (as claimed): a reviewer call whose capability always fails with an
\* error its agent classifies as transient makes exactly 3 attempts, waits
\* 10 s and 20 s between them, and the error is then raised to the caller.
C7_ThreeAttemptsThenRaise ==
    (raised # None /\ raised[1].role \in {"editor", "fact_checker"}
                   /\ IsRetryable(raised[1].role, raised[1].err.msg)) =>
        /\ raised[1].used = 3
        /\ raised[1].delays = <<10, 20>>

\* the reviewer's generation call returned a text that is not JSON
Unparseable(reply) == reply # None /\ reply[1].kind = "garbage"

\* C8 (as claimed): a reviewer whose output is not parseable as JSON, bare
\* or fenced, returns a degraded verdict (editor: grade N/A, fact-checker:
\* score 0) with ready_to_publish false that carries the raw text; the gate
\* of that cycle fails and the run goes on to the rewrite, or leaves the loop
\* on the cap.
C8_MalformedOutputIsNotReady ==
    /\ Unparseable(replies.editor) =>
         /\ editor_feedback[1].grade = "N/A"
         /\ editor_feedback[1].ready_to_publish = FALSE
         /\ editor_feedback[1].raw_feedback = Some(RawText(replies.editor[1]))
    /\ Unparseable(replies.fact_checker) =>
         /\ fact_check[1].verification_score = 0
         /\ fact_check[1].ready_to_publish = FALSE
         /\ fact_check[1].raw_response = Some(RawText(replies.fact_checker[1]))
    /\ (GateEvaluated /\ (Unparseable(replies.editor) \/ Unparseable(replies.fact_checker))) =>
         /\ exit_via # "approved"
         /\ exit_via = "cap" <=> revision_num >= max_iterations - 1
         /\ exit_via = "none" => pc \in {"research", "rewrite"}
         /\ pc = "done" => result[1].ready_to_publish = FALSE

\* what does hold of such a verdict: it is the degraded one, not ready, and
\* it carries the text that was given to the parser, the fence stripped; the
\* gate fails and the run goes on
DegradedVerdictIsNotReady ==
    /\ Unparseable(replies.editor) =>
         /\ editor_feedback[1].grade = "N/A"
         /\ editor_feedback[1].ready_to_publish = FALSE
         /\ editor_feedback[1].raw_feedback = Some(StripFence(replies.editor[1]))
    /\ Unparseable(replies.fact_checker) =>
         /\ fact_check[1].verification_score = 0
         /\ fact_check[1].ready_to_publish = FALSE
         /\ fact_check[1].raw_response = Some(StripFence(replies.fact_checker[1]))
    /\ (GateEvaluated /\ (Unparseable(replies.editor) \/ Unparseable(replies.fact_checker))) =>
         /\ exit_via # "approved"
         /\ exit_via = "cap" <=> revision_num >= max_iterations - 1
         /\ exit_via = "none" => pc \in {"research", "rewrite"}
         /\ pc = "done" => result[1].ready_to_publish = FALSE

\* a bare unparseable output is carried whole
BareOutputIsCarriedWhole ==
    (Unparseable(replies.editor) /\ replies.editor[1].fence = "none") =>
        editor_feedback[1].raw_feedback = Some(RawText(replies.editor[1]))

\* C10 (as claimed): an article version file or a verdict file, once
\* written, never changes its content.
C10_FilesNeverChange ==
    [][ /\ \A n \in DOMAIN article_files :
             n \in DOMAIN article_files' /\ article_files'[n] = article_files[n]
        /\ \A n \in DOMAIN editor_files :
             n \in DOMAIN editor_files' /\ editor_files'[n] = editor_files[n]
        /\ \A n \in DOMAIN fact_check_files :
             n \in DOMAIN fact_check_files' /\ fact_check_files'[n] = fact_check_files[n]
        /\ \A n \in DOMAIN authenticity_files :
             n \in DOMAIN authenticity_files'
             /\ authenticity_files'[n] = authenticity_files[n]
      ]_vars

\* the block an entry of the merged list belongs to (0: none of the five)
Block(e) ==
    CASE e.source = "fact-checker" /\ e.priority = "CRITICAL" -> 1
      [] e.source = "authenticity" /\ e.priority = "HIGH"     -> 2
      [] e.source = "editor"       /\ e.priority = "CRITICAL" -> 3
      [] e.source = "fact-checker" /\ e.priority = "HIGH"     -> 4
      [] e.source = "authenticity" /\ e.priority = "MEDIUM"   -> 5
      [] OTHER -> 0

\* the reviewer's list a block draws from, and the positions it takes from it
BlockList(b, fb) ==
    CASE b \in {1, 4} -> fb.fact_checker.issues
      [] b \in {2, 5} -> fb.authenticity.ai_patterns_found
      [] OTHER        -> fb.editor.critical_issues
BlockPositions(b, fb) ==
    LET l == BlockList(b, fb) IN
    CASE b = 1 -> {k \in 1..Len(l) : l[k].severity = "CRITICAL"}
      [] b = 2 -> {k \in 1..Len(l) : l[k].severity = "HIGH"}
      [] b = 4 -> {k \in 1..Len(l) : l[k].severity = "HIGH"}
      [] b = 5 -> {k \in 1..Len(l) : l[k].severity = "MEDIUM"}
      [] OTHER -> 1..Len(l)

\* the n-th smallest element of a set of numbers
Nth(S, n) == CHOOSE k \in S : Cardinality({j \in S : j <= k}) = n

\* C5: the merged issue list is made of the five blocks in their order
\* (fact-checker CRITICAL, authenticity HIGH, editor critical, fact-checker
\* HIGH, authenticity MEDIUM); each block holds the reviewer's items of that
\* kind, each once, in the reviewer's order; nothing else is in the list.
C5_MergeOrder ==
    combined_feedback # None =>
        LET fb == combined_feedback[1]
            m  == fb.combined_issues
        IN  /\ \A i \in 1..Len(m) : Block(m[i]) \in 1..5
            /\ \A i, j \in 1..Len(m) : i < j => Block(m[i]) <= Block(m[j])
            /\ \A b \in 1..5 :
                 LET at  == {i \in 1..Len(m) : Block(m[i]) = b}
                     pos == BlockPositions(b, fb)
                 IN  /\ Cardinality(at) = Cardinality(pos)
                     /\ \A i \in at :
                          m[i].issue =
                            BlockList(b, fb)[Nth(pos, Cardinality({j \in at : j <= i}))]

\* C5 witness: a merge of verdicts holding an item of each of the five kinds
\* and a fact-check issue of a severity that is left out
C5_Witness ==
    /\ pc = "combined"
    /\ \A b \in 1..5 : BlockPositions(b, combined_feedback[1]) # {}
    /\ \E k \in 1..Len(fact_check[1].issues) : fact_check[1].issues[k].severity = "LOW"
    /\ Len(combined_feedback[1].combined_issues) = 5

\* C9: a research call with the cache enabled, for a topic whose result an
\* earlier call has persisted, returns the persisted result, invokes neither
\* the topic analysis nor a lookup nor the synthesis, and leaves the cache as
\* it is.
C9_CacheHitReturnsPersisted ==
    [][\A topic \in Topics :
         LET file == cache_file(topic) IN
         (/\ r_calls' = r_calls + 1
          /\ r_topic' = topic
          /\ r_use_cache'
          /\ file \in DOMAIN research_cache
          /\ research_cache[file].complete
          /\ research_cache[file].value[1].topic = topic)
         => /\ r_pc' = "returned"
            /\ research_result' = research_cache[file].value
            /\ invoked' = NoneInvoked
            /\ research_cache' = research_cache]_vars

\* C9 witness: the second call returned the result the first call persisted,
\* a result with findings, and invoked nothing
C9_Witness ==
    /\ r_pc = "returned"
    /\ r_calls = 2
    /\ r_use_cache
    /\ research_result # None
    /\ research_result[1].timestamp = 1
    /\ research_result[1].topic = r_topic
    /\ Len(research_result[1].findings) > 0
    /\ research_cache[cache_file(r_topic)] = Document(research_result[1])
    /\ invoked = NoneInvoked

\* a resume starts in this step: resume_from_version has loaded the article
\* and the feedback of version start_version'
ResumeStarts == runs' = runs + 1 /\ mode' = "resume" /\ pc' # "raised"

\* the rewrite of a resume is made in this step
ResumeRewrites == pc = "resume_rewrite" /\ pc' = "editor"

\* in this step the rewrite of a resume saves version s + 1 and the review
\* loop starts at revision s + 1, no reviewer having been invoked
RewriteThenReviewFromNext ==
    /\ rewrites = 0 /\ rewrites' = 1
    /\ (start_version + 1) \in DOMAIN article_files'
    /\ article_files'[start_version + 1] = current_article'
    /\ current_article' # current_article
    /\ revision_num' = start_version + 1
    /\ revision_history' = <<>>
    /\ editor_feedback' = None /\ fact_check' = None /\ authenticity_check' = None

\* C11 (as claimed): every resume from a version s, whatever verdict files
\* exist for s and with or without end-user feedback, makes exactly one
\* rewrite that saves version s + 1 before any reviewer is invoked, then
\* runs the review loop from revision s + 1.
C11_ResumeRewritesOnce ==
    [][/\ ResumeStarts => pc' = "resume_rewrite"
       /\ ResumeRewrites => RewriteThenReviewFromNext]_vars

\* C11 (amended): a resume from a version s >= 1 makes that one rewrite if
\* and only if a verdict file exists for s or end-user feedback is given;
\* with neither, no rewrite is made and the review loop starts at revision
\* s with the loaded article.
C11_ResumeRewritesOnceWithFeedback ==
    [][/\ ResumeStarts =>
            LET fb == previous_feedback'[1]
                loaded == \/ fb.editor # None \/ fb.fact_checker # None
                          \/ fb.authenticity # None \/ fb.user # None
            IN  /\ start_version' >= 1
                /\ rewrites' = 0
                /\ loaded => pc' = "resume_rewrite"
                /\ ~loaded => /\ pc' = "editor"
                              /\ revision_num' = start_version'
                              /\ current_article' = article_files[start_version']
       /\ ResumeRewrites => RewriteThenReviewFromNext]_vars

\* C11 witness: a resume with persisted verdicts and no end-user feedback has
\* made its rewrite and stands before its first review
C11_Witness ==
    /\ mode = "resume" /\ pc = "editor"
    /\ rewrites = 1 /\ revision_history = <<>>
    /\ previous_feedback[1].editor # None
    /\ previous_feedback[1].user = None
    /\ revision_num \in DOMAIN article_files
    /\ article_files[revision_num] = current_article

\* the revisions for which a verdict file exists
ReviewedRevisions ==
    DOMAIN editor_files \cup DOMAIN fact_check_files \cup DOMAIN authenticity_files

\* C12 (as claimed): for every revision r with a verdict file, the article
\* those verdicts reviewed is persisted as article_v{r}.md, the first review
\* cycle of a fresh run included.
C12_ReviewedArticleIsPersisted ==
    /\ \A r \in ReviewedRevisions : r \in DOMAIN article_files
    /\ pc \in {"fact_check", "authenticity", "gate"} =>
         /\ revision_num \in DOMAIN article_files
         /\ article_files[revision_num] = current_article

\* the rule of the fact-checker's prompt: score >= 60 and no CRITICAL issue
FactCheckRule(fc) == fc.verification_score >= 60 /\ CriticalCount(fc) = 0

\* C13 (as claimed): the fact-checker readiness flag the gate uses is true if
\* and only if the score is >= 60 and the verdict holds no CRITICAL issue, so
\* no article is approved, by the gate or in the result, on a fact-check
\* verdict with a CRITICAL issue or a score below 60.
C13_FactCheckReadyFollowsRule ==
    GateEvaluated =>
        /\ fact_check[1].ready_to_publish <=> FactCheckRule(fact_check[1])
        /\ exit_via = "approved" => FactCheckRule(fact_check[1])
        /\ (pc = "done" /\ result[1].ready_to_publish) => FactCheckRule(fact_check[1])

\* the faults that hit an operation the function performs
FaultsOf(fn) ==
    CASE fn \in {"search_google_news", "search_internet_duckduckgo"} ->
             {"import", "client", "transport", "status", "parse"}
      [] fn \in {"search_internet", "search_web", "crawl_web"} ->
             {"transport", "status", "parse"}
      [] fn = "query_knowledge_base" -> {"client", "transport", "status", "parse"}
      [] fn = "search_rss_feeds" -> {"no_file", "bad_file", "parse"}
LookupMade == lookup # None
ErrorMarked(value) == Len(value) = 1 /\ value[1].type = "error"

\* C14 (as claimed): no Source Gateway lookup raises to its caller; a lookup
\* of one provider whose transport, client construction, cache-file read or
\* response parsing fails returns an empty list (crawl_web: an error-marked
\* record), and a lookup without its knowledge-base id returns an empty list.
C14_LookupsNeverRaise ==
    LookupMade =>
        LET fn == lookup[1].fn
            env == lookup[1].env
            out == lookup_outcome[1]
        IN  /\ out.raised = None
            /\ (fn = "crawl_web" /\ env.fault \in FaultsOf(fn)) => ErrorMarked(out.value)
            /\ (/\ fn \in {"search_google_news", "search_internet_duckduckgo",
                           "query_knowledge_base", "search_rss_feeds"}
                /\ env.fault \in FaultsOf(fn)) => out.value = <<>>
            /\ (fn = "query_knowledge_base" /\ ~env.kb_id) => out.value = <<>>

\* the lookups the code does guard: everything but the client construction
\* of query_knowledge_base and the reading of the feed cache by
\* search_rss_feeds, where only a missing file is caught
GuardedLookupsNeverRaise ==
    LookupMade =>
        LET fn == lookup[1].fn
            env == lookup[1].env
            out == lookup_outcome[1]
        IN  out.raised # None =>
                \/ fn = "query_knowledge_base" /\ env.kb_id /\ env.fault = "client"
                \/ fn = "search_rss_feeds" /\ env.fault \in {"bad_file", "parse"}

\* a run ended by the error of a file write
WriteAborted == pc = "raised" /\ raised[1].err.msg = "OSError"
\* a research call ended by the error of creating the cache directory
ResearchSaveAborted == r_pc = "raised"

\* C15 (as claimed): a failure to write a persisted artifact never aborts the
\* operation: no run of the Revision Controller is ended by the error of a
\* verdict, article-version or final-article write, and no research call is
\* ended by a failure to persist its result.
C15_WriteFailureNeverAborts == ~WriteAborted /\ ~ResearchSaveAborted

\* resume_from_version is called
ResumeCalled == pc \in {"done", "raised"} /\ runs' = runs + 1
\* the name is article_v<N>.md, nothing before and nothing after
OfTheForm(path) == VersionOf(path) # None /\ path.prefix = "" /\ path.suffix = ""
\* the call ends in this error; no generation call was made, nothing was
\* retried, no file was written
RaisedAtOnce(error) ==
    /\ pc' = "raised"
    /\ raised'[1].role = "resume_from_version"
    /\ raised'[1].err.msg = error
    /\ raised'[1].used = 0
    /\ raised'[1].delays = <<>>
    /\ UNCHANGED <<dirVars, next_text, replies, rewrites, researched, research_cache,
                   invoked>>

\* C16 (as claimed): resume_from_version raises FileNotFoundError for a path
\* that does not exist and ValueError for a file whose name is not of the
\* form article_v<N>.md, at once: no agent call, no retry, no file written.
C16_InvalidTargetRaisesAtOnce ==
    [][ResumeCalled =>
         LET path == resume_path'[1]
         IN  /\ ~Exists(path) => RaisedAtOnce("FileNotFoundError")
             /\ (Exists(path) /\ ~OfTheForm(path)) => RaisedAtOnce("ValueError")]_vars

\* what the code does: FileNotFoundError for a missing path, ValueError for
\* a name in which article_v<N>.md occurs nowhere
UnmatchedTargetRaisesAtOnce ==
    [][ResumeCalled =>
         LET path == resume_path'[1]
         IN  /\ ~Exists(path) => RaisedAtOnce("FileNotFoundError")
             /\ (Exists(path) /\ VersionOf(path) = None) => RaisedAtOnce("ValueError")
             /\ (Exists(path) /\ VersionOf(path) # None) => pc' # "raised"]_vars

\* the review loop of the run has ended
LoopEnded == pc \in {"finalize", "done"}
\* the step that follows the loop, completed: the run returns its result
Finalized == pc = "finalize" /\ pc' = "done"
\* one humanization of the last working article, after the last review: one
\* generation output is taken, verdicts, history and versions stay as they
\* are, and the output is the result's final_article and the content of
\* article_final.md
HumanizedOnce ==
    /\ next_text' = next_text + 1
    /\ current_article' = next_text
    /\ current_article' # current_article
    /\ final_file' = Some(current_article')
    /\ result'[1].final_article = current_article'
    /\ result'[1].revision_history = revision_history
    /\ UNCHANGED <<cycleVars, revision_history, rewrites, article_files, exit_via>>

\* C17 (as claimed): a run whose review loop ended, by gate pass or by cap,
\* returns only through one humanization of the last working article, after
\* the last review and whatever the approval status, and the output of that
\* pass is the result's final_article and, from then on, the content of
\* article_final.md.
C17_HumanizedOnceAfterLoop ==
    [][/\ (pc' = "done" /\ pc # "done") => Finalized
       /\ pc' = "finalize" => exit_via' \in {"approved", "cap"}
       /\ Finalized => HumanizedOnce
       /\ result' # None => final_file' = Some(result'[1].final_article)]_vars

\* what the code does: the run returns through one humanization, and the
\* run and its caller write nothing but the output of that pass to
\* article_final.md; the caller writes the file a second time, and when that
\* write fails after the file was opened the file is left cut short while
\* the result holds the whole text
HumanizedOutputIsWritten ==
    [][/\ (pc' = "done" /\ pc # "done") => Finalized
       /\ pc' = "finalize" => exit_via' \in {"approved", "cap"}
       /\ Finalized => HumanizedOnce
       /\ result' # None =>
            /\ final_file' \in {Some(result'[1].final_article),
                                Some(CutText(result'[1].final_article))}
            /\ pc' = "done" => final_file' = Some(result'[1].final_article)]_vars

\* a run that hit the cap unapproved returned a humanized article that is no
\* reviewed version, saved as article_final.md, and the second write of the
\* file by agent.py left it cut short
FinalArticleCut ==
    /\ pc = "raised" /\ exit_via = "cap" /\ result # None
    /\ raised[1].role = "article_final"
    /\ ~result[1].ready_to_publish
    /\ rewrites >= 1
    /\ final_file = Some(CutText(result[1].final_article))
    /\ result[1].final_article = current_article
    /\ \A r \in DOMAIN article_files : article_files[r] # current_article

\* the names of the files the workflow has written to the output directory
VerdictPath(stem, n) == Path("", stem, Some(n), "", ".json", "")
OutputDirectory ==
    (IF draft_file = None THEN {} ELSE {DraftPath})
        \cup (IF final_file = None THEN {} ELSE {FinalPath})
        \cup extra_files
        \cup {ArticlePath(n) : n \in DOMAIN article_files}
        \cup {VerdictPath("editor_feedback_v", n) : n \in DOMAIN editor_files}
        \cup {VerdictPath("fact_check_v", n) : n \in DOMAIN fact_check_files}
        \cup {VerdictPath("authenticity_check_v", n) : n \in DOMAIN authenticity_files}
\* the per-revision article and verdict files
PerRevisionStems ==
    {"article_v", "editor_feedback_v", "fact_check_v", "authenticity_check_v"}
\* the files made from the text of the final article: its renderings for
\* the web and for Medium and the list of its images
RenderingStems == {"article_final", "article_enhanced", "article_medium", "article_images"}

\* C18 (as claimed): after a run completes its output directory holds the
\* final article file and, besides the per-revision article and verdict
\* files, a revision-history summary of the run's RevisionRecords.
C18_HistorySummaryIsPersisted ==
    pc = "done" =>
        /\ FinalPath \in OutputDirectory
        /\ \E path \in OutputDirectory :
              path.stem \notin PerRevisionStems \cup RenderingStems

\* what a completed run leaves: the final article and, for each recorded
\* cycle, the three verdict files of its revision
CompletedRunLeavesVerdicts ==
    (pc = "done" /\ mode = "fresh") =>
        /\ FinalPath \in OutputDirectory
        /\ \A k \in 1..Len(revision_history) :
             /\ VerdictPath("editor_feedback_v", k - 1) \in OutputDirectory
             /\ VerdictPath("fact_check_v", k - 1) \in OutputDirectory
             /\ VerdictPath("authenticity_check_v", k - 1) \in OutputDirectory

\* the RevisionRecord of the last cycle of the run
LastRecord == revision_history[Len(revision_history)]

\* C19: the result's ready_to_publish is the conjunction of its three flags;
\* fact_check_ready and authenticity_ready are the flags of the last cycle's
\* verdicts; editor_ready is true iff the last grade is A+, A or A-, while
\* the last RevisionRecord's editor_ready is true iff it is A+ or A, so the
\* two differ exactly when the last grade is A-.
C19_ResultFlags ==
    pc = "done" =>
        LET r == result[1]
            grade == editor_feedback[1].grade
        IN  /\ r.ready_to_publish <=>
                 (r.editor_ready /\ r.fact_check_ready /\ r.authenticity_ready)
            /\ r.fact_check_ready = fact_check[1].ready_to_publish
            /\ r.authenticity_ready = authenticity_check[1].ready_to_publish
            /\ r.editor_grade = grade /\ LastRecord.editor_grade = grade
            /\ r.editor_ready <=> grade \in {"A+", "A", "A-"}
            /\ LastRecord.editor_ready <=> grade \in {"A+", "A"}
            /\ LastRecord.fact_check_ready = r.fact_check_ready
            /\ LastRecord.authenticity_ready = r.authenticity_ready
            /\ (r.editor_ready # LastRecord.editor_ready) <=> grade = "A-"

\* C19 witness: a run returned with last grade A-: the result says the
\* editor is ready, the last RevisionRecord says it is not
C19_Witness ==
    /\ pc = "done"
    /\ editor_feedback[1].grade = "A-"
    /\ result[1].editor_ready
    /\ ~LastRecord.editor_ready
    /\ result[1].total_revisions = Len(revision_history)

\* the entries of the memo table stay as they are
MemoKept ==
    \A u \in DOMAIN _url_cache :
        u \in DOMAIN _url_cache' /\ _url_cache'[u] = _url_cache[u]
\* a call of verify_url begins in this step
CallBegins == Len(v_calls') > Len(v_calls)
NewCall == v_calls'[Len(v_calls')]
\* call i has returned, and it was for the URL of the call that begins
ReturnedBefore(i) == v_calls[i].at = "returned" /\ v_calls[i].url = NewCall.url

\* C20 (as claimed): once a call of verify_url for a URL has returned, every
\* later call with that URL returns the same result and issues no request,
\* whatever the outcome of the first was, and the memo table never evicts or
\* changes an entry.
C20_VerifyUrlIsMemoized ==
    [][/\ MemoKept
       /\ CallBegins =>
            \A i \in 1..Len(v_calls) :
                ReturnedBefore(i) => /\ NewCall.at = "returned"
                                     /\ ~NewCall.requested
                                     /\ NewCall.result = v_calls[i].result]_vars

\* the step stores the result of call i
Stores(i) == v_calls[i].at = "store" /\ v_calls'[i].at = "returned"
\* what the code does: a call that finds an entry returns it without a
\* request; an entry is never removed; an entry is written only by the store
\* of a call that got a response, and is that call's result; the store of a
\* call that tested the memo before the entry was there overwrites the entry
\* another call has written since
MemoHitsAreServed ==
    [][/\ DOMAIN _url_cache \subseteq DOMAIN _url_cache'
       /\ CallBegins =>
            /\ UNCHANGED _url_cache
            /\ IF NewCall.url \in DOMAIN _url_cache
               THEN /\ NewCall.at = "returned" /\ ~NewCall.requested
                    /\ NewCall.result = Some(_url_cache[NewCall.url])
               ELSE NewCall.at = "request"
       /\ _url_cache' # _url_cache =>
            \E i \in DOMAIN v_calls :
                /\ Stores(i) /\ v_calls[i].requested
                /\ v_calls[i].result[1].error = None
                /\ _url_cache' = WriteFile(_url_cache, v_calls[i].url, v_calls[i].result[1])
       /\ \A i \in DOMAIN v_calls :
            (v_calls[i].at = "request" /\ v_calls'[i].at = "returned") =>
                /\ v_calls'[i].result[1].error # None
                /\ UNCHANGED _url_cache]_vars

\* two calls for one URL ran side by side: both made a request, the first
\* stored a page that is there, the second replaced the entry with a page
\* that is not
MemoEntryReplaced ==
    \E i, j \in DOMAIN v_calls :
        /\ i # j /\ v_calls[i].url = v_calls[j].url
        /\ v_calls[i].at = "returned" /\ v_calls[j].at = "returned"
        /\ v_calls[i].requested /\ v_calls[j].requested
        /\ v_calls[i].result[1].status_code = Some(200)
        /\ v_calls[j].result[1].status_code = Some(404)
        /\ _url_cache[v_calls[i].url] = v_calls[j].result[1]

\* the lookup made is search_internet
SearchInternetMade == lookup # None /\ lookup[1].fn = "search_internet"
Called(provider) ==
    \E i \in 1..Len(lookup_outcome[1].contacted) : lookup_outcome[1].contacted[i] = provider
PrimaryRecords(env) ==
    (IF env.answer THEN <<[type |-> "summary", source |-> <<"tavily_ai_summary", 0>>]>>
     ELSE <<>>) \o Hits("web_search", "tavily", env.hits)

\* C21 (as claimed): search_internet calls the secondary provider iff no
\* primary key is configured or the primary request fails; a primary request
\* that succeeds has its records returned, even none, without the secondary;
\* when both providers fail the result is the empty list, nothing raised.
C21_SecondaryIffPrimaryUnavailable ==
    SearchInternetMade =>
        LET env == lookup[1].env
            out == lookup_outcome[1]
        IN  /\ Called("duckduckgo") <=> (~env.api_key \/ PrimaryRequestFails(env))
            /\ Called("tavily") <=> env.api_key
            /\ (env.api_key /\ ~PrimaryRequestFails(env)) =>
                  out.value = PrimaryRecords(env) /\ ~Called("duckduckgo")
            /\ ((~env.api_key \/ PrimaryRequestFails(env)) /\ env.fallback # "none") =>
                  out.value = <<>>
            /\ out.raised = None

\* what the code does: the secondary is also called when the primary request
\* succeeded and a record of its response has no title
SecondaryIffPrimaryBlockRaises ==
    SearchInternetMade =>
        LET env == lookup[1].env
            out == lookup_outcome[1]
            falls == ~env.api_key \/ PrimaryRequestFails(env) \/ RecordLoopFails(env)
        IN  /\ Called("duckduckgo") <=> falls
            /\ Called("tavily") <=> env.api_key
            /\ ~falls => out.value = PrimaryRecords(env)
            /\ (falls /\ env.fallback # "none") => out.value = <<>>
            /\ out.raised = None

\* the file of revision r holds this verdict
Saved(files, r, verdict) == r \in DOMAIN files /\ files[r] = verdict[1]
\* pc moves to this position
Enters(position) == pc' = position /\ pc # position

\* C22: in the cycle of revision r the editor's verdict is in its file for r
\* before the fact-checker is invoked, the fact-check verdict is in its file
\* before the authenticity check is invoked, the authenticity verdict is in
\* its file before the gate is evaluated, the reviewers run in that order,
\* and the output of a rewrite is article version r+1 on disk before a
\* reviewer is invoked for r+1.
C22_CycleOrder ==
    [][/\ Enters("fact_check") =>
            /\ pc = "editor"
            /\ Saved(editor_files', revision_num, editor_feedback')
            /\ replies'.editor # None
            /\ UNCHANGED <<fact_check, authenticity_check, fact_check_files,
                           authenticity_files, revision_num>>
       /\ Enters("authenticity") =>
            /\ pc = "fact_check"
            /\ Saved(editor_files, revision_num, editor_feedback)
            /\ Saved(fact_check_files', revision_num, fact_check')
            /\ UNCHANGED <<editor_feedback, authenticity_check, editor_files,
                           authenticity_files, revision_num>>
       /\ Enters("gate") =>
            /\ pc = "authenticity"
            /\ Saved(editor_files, revision_num, editor_feedback)
            /\ Saved(fact_check_files, revision_num, fact_check)
            /\ Saved(authenticity_files', revision_num, authenticity_check')
            /\ UNCHANGED <<editor_feedback, fact_check, editor_files, fact_check_files,
                           revision_num>>
       /\ (Enters("editor") /\ pc \in {"rewrite", "resume_rewrite"}) =>
            /\ revision_num' \in DOMAIN article_files'
            /\ article_files'[revision_num'] = current_article'
            /\ current_article' # current_article
            /\ UNCHANGED <<editor_files, fact_check_files, authenticity_files, replies>>]_vars

\* C22 witness: the gate of a cycle that follows a rewrite is reached with
\* the rewritten article and the three verdicts of the revision on disk
C22_Witness ==
    /\ pc = "gate" /\ rewrites >= 1 /\ Len(revision_history) >= 1
    /\ revision_num \in DOMAIN article_files
    /\ article_files[revision_num] = current_article
    /\ Saved(editor_files, revision_num, editor_feedback)
    /\ Saved(fact_check_files, revision_num, fact_check)
    /\ Saved(authenticity_files, revision_num, authenticity_check)

\* the run was ended by the error of a call to one of these agents
CallRaised(roles) == raised # None /\ raised[1].role \in roles
\* an error no agent's pattern matches and that is no EventStreamError
Unclassified(err) == ~err.eventStream /\ err.msg = "validationException"

\* C23: a reviewer or rewrite call that fails with an error that is no
\* EventStreamError and that its agent does not classify as transient is
\* attempted exactly once, without delay, and the error reaches the caller
\* of the workflow: the run ends without a result.
C23_UnclassifiedErrorRaisesAtOnce ==
    CallRaised({"editor", "fact_checker", "authenticity", "writer"}) =>
        LET r == raised[1] IN
        /\ (~r.err.eventStream /\ ~IsRetryable(r.role, r.err.msg)) =>
              r.used = 1 /\ r.delays = <<>>
        /\ Unclassified(r.err) => r.used = 1 /\ r.delays = <<>>
        /\ pc = "raised" /\ result = None

\* C23 witness: a rewrite ended the run at the first failure of a call that
\* met an unclassified error
C23_Witness ==
    /\ CallRaised({"writer"})
    /\ Unclassified(raised[1].err)
    /\ raised[1].used = 1
    /\ Len(revision_history) >= 1
    /\ pc = "raised"

\* an iteration of the research loop has just been entered
IterationEntered == r_pc = "loop" /\ iteration' = iteration + 1
\* an iteration of the research loop has just run to its end
IterationRan == IterationEntered /\ r_pc' # "raised"

\* C24: on a cache miss the loop is entered with no iteration run, every
\* step in it enters one more iteration, at most MAX_RESEARCH_ITERATIONS, and
\* the iteration runs to its end or raises out of research(); the loop
\* stops after iteration i iff the synthesized confidence is at or above the
\* threshold, or i is the cap, or the synthesis reported no gaps; otherwise
\* the next iteration's questions are those gaps; the result's iterations
\* field is the number of iterations run, at least 1.
C24_ResearchLoopBounds ==
    [][/\ (r_pc' = "loop" /\ r_pc # "loop") => iteration' = 0
       /\ (r_pc = "loop" /\ r_pc' # r_pc) => IterationEntered /\ r_pc' \in {"save", "raised"}
       /\ (r_pc = "loop" /\ r_pc' = r_pc /\ iteration' # iteration) => IterationRan
       /\ IterationEntered => iteration' \in 1..MAX_RESEARCH_ITERATIONS
       /\ IterationRan =>
            /\ iteration' \in 1..MAX_RESEARCH_ITERATIONS
            /\ confidence' = synthesis'[1].confidence
            /\ r_pc' = "save" <=> \/ confidence' >= CONFIDENCE_THRESHOLD
                                  \/ iteration' = MAX_RESEARCH_ITERATIONS
                                  \/ synthesis'[1].gaps = <<>>
            /\ r_pc' = "loop" => questions' = synthesis'[1].gaps /\ questions' # <<>>
       /\ (r_pc = "save" /\ r_pc' = "returned") =>
            /\ research_result'[1].iterations = iteration
            /\ iteration \in 1..MAX_RESEARCH_ITERATIONS]_vars

\* C24 witness: a call that ran to the cap: gaps and low confidence in every
\* iteration, MAX_RESEARCH_ITERATIONS iterations reported
C24_Witness ==
    /\ r_pc = "returned"
    /\ research_result # None
    /\ invoked.synthesis = MAX_RESEARCH_ITERATIONS
    /\ research_result[1].iterations = MAX_RESEARCH_ITERATIONS
    /\ research_result[1].confidence < CONFIDENCE_THRESHOLD
    /\ research_result[1].synthesis.gaps # <<>>

\* the synthesis reply of the iteration that just ran is not JSON
SynthesisUnparseable(it) == SynthesisReply(sources, it).kind = "text"
\* the synthesis prompt of the iteration has just been answered
Synthesized ==
    /\ IterationEntered
    /\ invoked'.synthesis = invoked.synthesis + 1
    /\ SynthesisReply(sources, iteration').kind # "error"

\* C25: when the synthesis output of iteration i is not JSON the synthesis
\* is confidence 0.5 with no gaps, the loop stops at iteration i with no
\* further lookup or generation call, and the result that is returned
\* reports confidence 0.5 and iterations = i.
C25_UnparseableSynthesisStopsLoop ==
    [][/\ (Synthesized /\ SynthesisUnparseable(iteration')) =>
            /\ synthesis' = Some([confidence |-> 50, gaps |-> <<>>])
            /\ confidence' = 50
            /\ r_pc' = "save"
       /\ (r_pc = "save" /\ SynthesisUnparseable(iteration)) =>
            /\ r_pc' \in {"save", "returned", "raised"}
            /\ invoked' = invoked
            /\ r_pc' = "returned" =>
                 /\ research_result'[1].confidence = 50
                 /\ research_result'[1].iterations = iteration
                 /\ research_result'[1].synthesis.gaps = <<>>]_vars

\* C25 witness: the synthesis of the second iteration was not JSON and the
\* call returned confidence 0.5 after two iterations
C25_Witness ==
    /\ r_pc = "returned"
    /\ research_result # None
    /\ sources.synthesis = "text_later"
    /\ invoked.synthesis = 2
    /\ research_result[1].iterations = 2
    /\ research_result[1].confidence = 50

\* a research call has just analysed its topic (cache miss)
TopicAnalysed == r_calls' = r_calls + 1 /\ invoked'.analysis = 1

\* C26 (as claimed): after topic analysis the question list of iteration 1
\* is never empty: a malformed output or an empty question list gives the
\* single question equal to the topic, and topic analysis never raises.
C26_QuestionsNeverEmpty ==
    [][TopicAnalysed =>
         /\ r_pc' = "loop"
         /\ questions' # <<>>
         /\ AnalysisReply(sources).kind = "text" => questions' = <<r_topic'>>
         /\ (AnalysisReply(sources).kind = "json" /\ AnalysisReply(sources).value = <<>>)
               => questions' = <<r_topic'>>]_vars

\* what the code does: the fallback is taken for an output that is not JSON
MalformedAnalysisFallsBack ==
    [][TopicAnalysed =>
         /\ AnalysisReply(sources).kind = "text" =>
               r_pc' = "loop" /\ questions' = <<r_topic'>>
         /\ AnalysisReply(sources).kind = "json" =>
               r_pc' = "loop" /\ questions' = AnalysisReply(sources).value
         /\ AnalysisReply(sources).kind = "error" => r_pc' = "raised"]_vars

\* do_targeted_research was called
TargetedMade == lookup # None /\ lookup[1].fn = "do_targeted_research"
\* the records the searches before the k-th returned
RECURSIVE RecordsBefore(_, _)
RecordsBefore(answers, k) ==
    IF k <= 1 THEN 0
    ELSE RecordsBefore(answers, k - 1)
         + (IF answers[k - 1].ok THEN answers[k - 1].records ELSE 0)
FirstFive(tokens) == [i \in 1..(IF Len(tokens) < 5 THEN Len(tokens) ELSE 5) |-> tokens[i]]

\* C27: do_targeted_research issues one search per request, its query the
\* first 5 tokens of the claim, 3 results asked; a search that fails is
\* skipped and the later requests are still processed; the findings are, in
\* request order, one per record of each search that succeeded, tagged
\* targeted_internet_search with the request's claim and priority; no request
\* means no search and no finding; nothing is raised.
C27_TargetedResearch ==
    TargetedMade =>
        LET requests == lookup[1].requests
            answers  == lookup[1].answers
            searches == lookup_outcome[1].contacted
            findings == lookup_outcome[1].value
        IN  /\ lookup_outcome[1].raised = None
            /\ Len(searches) = Len(requests)
            /\ \A k \in 1..Len(requests) :
                 /\ searches[k].query = FirstFive(split(requests[k].claim))
                 /\ searches[k].max_results = 3
                 /\ answers[k].ok =>
                      \A j \in 1..answers[k].records :
                         LET f == findings[RecordsBefore(answers, k) + j] IN
                         /\ f.source = "targeted_internet_search"
                         /\ f.related_claim = requests[k].claim
                         /\ f.priority = requests[k].priority
            /\ Len(findings) = RecordsBefore(answers, Len(requests) + 1)
            /\ requests = <<>> => findings = <<>> /\ searches = <<>>

\* C27 witness: the first search failed, the second returned two records for
\* a claim of more than five tokens
C27_Witness ==
    /\ TargetedMade
    /\ Len(lookup[1].requests) = 2
    /\ ~lookup[1].answers[1].ok
    /\ lookup[1].answers[2] = [ok |-> TRUE, records |-> 2]
    /\ Len(split(lookup[1].requests[2].claim)) > 5
    /\ Len(lookup_outcome[1].contacted[2].query) = 5
    /\ Len(lookup_outcome[1].value) = 2
    /\ lookup_outcome[1].value[1].related_claim = lookup[1].requests[2].claim

\* the writer has just revised in the review loop
Rewritten == pc = "rewrite" /\ rewrites' = rewrites + 1
\* the findings targeted research added in this run
TargetedInPool ==
    {k \in 1..Len(research_findings) :
        research_findings[k].source = "targeted_internet_search"}

\* C28 (as claimed): the findings targeted research returns are appended to
\* the run's findings pool, and the pool is part of what the Rewrite step of
\* that cycle and of later cycles is given.
C28_FindingsReachRewrite ==
    [][/\ (pc = "research" /\ researched' = "ran") =>
            /\ Len(research_findings') >= Len(research_findings)
            /\ SubSeq(research_findings', 1, Len(research_findings)) = research_findings
       /\ (Rewritten /\ TargetedInPool # {}) =>
            /\ "research_findings" \in DOMAIN combined_feedback'[1]
            /\ combined_feedback'[1].research_findings = research_findings]_vars

\* what the code does: the pool grows by the findings returned, and the
\* writer is given the three verdicts and the merged issue list only
FindingsArePooledOnly ==
    [][/\ (pc = "research" /\ researched' = "ran") =>
            /\ Len(research_findings') >= Len(research_findings)
            /\ SubSeq(research_findings', 1, Len(research_findings)) = research_findings
            /\ \A k \in (Len(research_findings) + 1)..Len(research_findings') :
                  research_findings'[k].source = "targeted_internet_search"
       /\ Rewritten =>
            DOMAIN combined_feedback'[1] =
               {"editor", "fact_checker", "authenticity", "user", "combined_issues"}]_vars

\* the editor has just reviewed the article of the current revision
EditorReviewed == pc = "editor" /\ pc' = "fact_check"
\* the fact-check verdict on disk for the revision before the current one
PreviousVerdictAvailable == (revision_num - 1) \in DOMAIN fact_check_files

\* C29 (as claimed): in the cycle of revision r the editor's context is the
\* persisted fact-check verdict of revision r-1 whenever that verdict is
\* available, in particular in every cycle of a fresh run after the first;
\* it is never the verdict of a fact-check made in the cycle of r itself.
C29_EditorContextIsPreviousVerdict ==
    [][EditorReviewed =>
         /\ PreviousVerdictAvailable =>
               previous_fact_check' = Some(fact_check_files[revision_num - 1])
         /\ (mode = "fresh" /\ Len(revision_history) >= 1) =>
               previous_fact_check' # None
         /\ previous_fact_check' # None =>
               /\ PreviousVerdictAvailable
               /\ previous_fact_check' = Some(fact_check_files[revision_num - 1])]_vars

\* what the code does: the context is read for revisions above 1 only, so the
\* cycle of revision 1 reviews without the verdict of revision 0
EditorContextAboveRevisionOne ==
    [][EditorReviewed =>
         /\ (revision_num > 1 /\ PreviousVerdictAvailable) =>
               previous_fact_check' = Some(fact_check_files[revision_num - 1])
         /\ revision_num <= 1 => previous_fact_check' = None
         /\ previous_fact_check' # None =>
               /\ PreviousVerdictAvailable
               /\ previous_fact_check' = Some(fact_check_files[revision_num - 1])]_vars

\* revise_article has been called with the feedback of a cycle
PromptBuilt == lookup # None /\ lookup[1].fn = "revise_article"
\* an entry of the merged issue list is in the list of the prompt that
\* shows the items of its reviewer
InPrompt(entry, prompt) ==
    LET shown == CASE entry.source = "fact-checker" -> prompt.fact_issues
                   [] entry.source = "authenticity" -> prompt.ai_patterns
                   [] entry.source = "editor"       -> prompt.critical_issues
    IN  \E k \in 1..Len(shown) : shown[k] = entry.issue
Flagged(issues) == SelectSeq(issues, LAMBDA i : i.severity \in {"CRITICAL", "HIGH"})

\* C30 (as claimed): every entry of the merged issue list (the fact-checker's
\* CRITICAL and HIGH issues, the authenticity patterns, the editor's critical
\* issues) is in the prompt the Rewrite step sends to the generation call,
\* however many issues the verdicts hold.
C30_EveryFlaggedItemIsSent ==
    PromptBuilt =>
        \A k \in 1..Len(lookup[1].feedback.combined_issues) :
            InPrompt(lookup[1].feedback.combined_issues[k], lookup_outcome[1].value)

\* what the code does: the prompt shows the first ten CRITICAL/HIGH
\* fact-check issues and the first five patterns of any severity, and every
\* critical issue of the editor
PromptShowsLeadingItems ==
    PromptBuilt =>
        LET feedback == lookup[1].feedback
            prompt   == lookup_outcome[1].value
            issues   == Flagged(feedback.fact_checker.issues)
            patterns == feedback.authenticity.ai_patterns_found
        IN  /\ prompt.critical_issues = feedback.editor.critical_issues
            /\ Len(prompt.fact_issues) = Min(FactIssuesShown, Len(issues))
            /\ \A k \in 1..Len(prompt.fact_issues) : prompt.fact_issues[k] = issues[k]
            /\ Len(prompt.ai_patterns) = Min(AiPatternsShown, Len(patterns))
            /\ \A k \in 1..Len(prompt.ai_patterns) : prompt.ai_patterns[k] = patterns[k]
            /\ (Len(issues) <= FactIssuesShown /\ Len(patterns) <= AiPatternsShown) =>
                  \A k \in 1..Len(feedback.combined_issues) :
                      InPrompt(feedback.combined_issues[k], prompt)

\* a resume has started with end-user feedback
ResumeStartsWithUserFeedback == ResumeStarts /\ previous_feedback'[1].user # None
\* the prompt of the rewrite that has just been made
PromptSent == revise_article_prompt(combined_feedback'[1])

\* C31: a resume from a version s >= 1 with end-user feedback makes the resume
\* rewrite, also when no verdict file exists for s; the prompt of that rewrite
\* holds the feedback under the heading of highest priority and the rewrite
\* produces version s + 1; no rewrite of a later cycle holds it, and the
\* context given to a reviewer is a fact-check verdict or nothing.
C31_UserFeedbackInResumeRewriteOnly ==
    [][/\ (ResumeStartsWithUserFeedback /\ start_version' >= 1) =>
             pc' = "resume_rewrite"
       /\ (ResumeRewrites /\ previous_feedback[1].user # None) =>
             /\ PromptSent.user # None
             /\ PromptSent.user[1].text = previous_feedback[1].user[1]
             /\ PromptSent.user[1].heading = "USER FEEDBACK (HIGHEST PRIORITY)"
             /\ PromptSent.user[1].first
             /\ (start_version + 1) \in DOMAIN article_files'
             /\ article_files'[start_version + 1] = current_article'
       /\ Rewritten => PromptSent.user = None
       /\ (EditorReviewed /\ previous_fact_check' # None) =>
             "verification_score" \in DOMAIN previous_fact_check'[1]
             /\ "user" \notin DOMAIN previous_fact_check'[1]]_vars

\* a run resumed with end-user feedback and no verdict file for s has made
\* the resume rewrite and then a rewrite in its review loop
C31_Witness ==
    /\ mode = "resume" /\ rewrites >= 2
    /\ previous_feedback # None
    /\ previous_feedback[1].user # None
    /\ previous_feedback[1].editor = None
    /\ previous_feedback[1].fact_checker = None
    /\ previous_feedback[1].authenticity = None
    /\ combined_feedback # None /\ combined_feedback[1].user = None

\* the three reviewer calls of the cycle have completed and their verdicts
\* are saved: the cycle is recorded in this step
CycleRecorded == pc = "gate" /\ pc' # "gate"
\* the run goes on (no new run starts in this step)
SameRun == runs' = runs
\* the files of the directory: verdicts by role, article versions
FileCount(files) == Cardinality(DOMAIN files)
\* a call that succeeds after at least one failed attempt
RetriedCall(role) ==
    \E b \in Behaviours : b.failures > 0 /\ Call(role, b).ok /\ Call(role, b).used > 1

\* C32: within a run revision_history only grows, by exactly one record in
\* the step that follows the third completed reviewer call of a cycle and by
\* none in any other step; record k is numbered start_version + k (the
\* revision reviewed plus one); a step of a cycle, whatever the number of
\* attempts of its call, adds at most one verdict file of its role or one
\* article version; a step that ends the run with an error adds no record;
\* total_revisions of the result is the number of records.
C32_OneRecordPerCompletedCycle ==
    [][/\ (SameRun /\ CycleRecorded) =>
            /\ Len(revision_history') = Len(revision_history) + 1
            /\ SubSeq(revision_history', 1, Len(revision_history)) = revision_history
            /\ revision_history'[Len(revision_history')].revision = revision_num + 1
       /\ (SameRun /\ ~CycleRecorded) => revision_history' = revision_history
       /\ SameRun =>
            \A k \in 1..Len(revision_history') :
                revision_history'[k].revision = start_version' + k
       /\ pc' = "raised" => (SameRun => revision_history' = revision_history)
       /\ SameRun =>
            /\ FileCount(editor_files') + FileCount(fact_check_files')
                  + FileCount(authenticity_files') + FileCount(article_files')
               <= FileCount(editor_files) + FileCount(fact_check_files)
                  + FileCount(authenticity_files) + FileCount(article_files) + 1
            /\ mode = "fresh" =>
                  /\ FileCount(editor_files') <= Len(revision_history') + 1
                  /\ FileCount(fact_check_files') <= Len(revision_history') + 1
                  /\ FileCount(authenticity_files') <= Len(revision_history') + 1
                  /\ FileCount(article_files') <= Len(revision_history')
       /\ Finalized =>
            /\ result'[1].total_revisions = Len(revision_history)
            /\ result'[1].revision_history = revision_history]_vars

\* a fresh run of two recorded cycles has returned, the reviewer and writer
\* calls being ones that can succeed after failed attempts
C32_Witness ==
    /\ pc = "done" /\ mode = "fresh"
    /\ Len(revision_history) = 2
    /\ result[1].total_revisions = 2
    /\ revision_history[1].revision = 1 /\ revision_history[2].revision = 2
    /\ FileCount(editor_files) = 2 /\ FileCount(article_files) = 1
    /\ RetriedCall("editor") /\ RetriedCall("fact_checker")
    /\ RetriedCall("authenticity") /\ RetriedCall("writer")

\* a step of the review of one revision: editor, fact-checker, authenticity
\* check, record and gate
ReviewStep == pc \in {"editor", "fact_check", "authenticity", "gate"}
\* the text under review: the version of the current revision on disk; for
\* revision 0, which has no file of its own, the article process_article was
\* handed, that is the draft of agent.py or the article the script read
ReviewedText ==
    IF revision_num \in DOMAIN article_files THEN article_files[revision_num]
    ELSE IF draft_file # None THEN draft_file[1]
    ELSE ScriptArticle

\* C33: the review of a revision never changes the article; the loop is left
\* from the gate only, so no rewrite follows the last review; the text handed
\* to the humanizer is the version the last cycle reviewed, its three verdicts
\* are the ones on disk for that revision, and the grade, scores and flags of
\* the result are taken from these verdicts.
C33_NoRewriteAfterLastReview ==
    [][/\ (ReviewStep /\ SameRun) =>
            /\ current_article' = current_article
            /\ rewrites' = rewrites
            /\ current_article = ReviewedText
       /\ pc' = "finalize" => (pc = "gate" /\ current_article' = current_article)
       /\ Finalized =>
            /\ current_article = ReviewedText
            /\ Saved(editor_files, revision_num, editor_feedback)
            /\ Saved(fact_check_files, revision_num, fact_check)
            /\ Saved(authenticity_files, revision_num, authenticity_check)
            /\ LastRecord.revision = revision_num + 1
            /\ result'[1].editor_grade = editor_feedback[1].grade
            /\ result'[1].editor_grade = LastRecord.editor_grade
            /\ result'[1].fact_check_score = fact_check[1].verification_score
            /\ result'[1].fact_check_score = LastRecord.fact_check_score
            /\ result'[1].fact_check_ready = fact_check[1].ready_to_publish
            /\ result'[1].authenticity_score = authenticity_check[1].authenticity_score
            /\ result'[1].authenticity_score = LastRecord.authenticity_score
            /\ result'[1].authenticity_ready = authenticity_check[1].ready_to_publish]_vars

\* a run the script started on an article it read (no draft in the
\* directory) has returned after a rewrite and a second review whose grade
\* differs from the first: the result holds the second grade, and the last
\* version on disk is the one reviewed last
C33_Witness ==
    /\ pc = "done" /\ rewrites = 1 /\ Len(revision_history) = 2
    /\ mode = "fresh" /\ draft_file = None
    /\ revision_history[1].editor_grade # revision_history[2].editor_grade
    /\ result[1].editor_grade = revision_history[2].editor_grade
    /\ result[1].fact_check_score = revision_history[2].fact_check_score
    /\ DOMAIN article_files = {1}
    /\ current_article # article_files[1]

\* a review cycle is being executed for revision_num
InCycle == pc \in {"editor", "fact_check", "authenticity", "gate"}

\* C34 (as claimed): in every run, fresh or resumed from any version, no
\* review cycle is executed for a revision number above max_iterations - 1,
\* and a run makes at most max_iterations review cycles.
C34_CyclesWithinCap ==
    /\ InCycle => revision_num <= max_iterations - 1
    /\ Len(revision_history) <= max_iterations

\* what the code does: a run makes at most max_iterations cycles and a fresh
\* run stays below the cap, but a run resumed from a version at or above
\* max_iterations - 1 reviews a revision above the limit in its first cycle,
\* which is then its last
CyclesWithinCapOfFreshRun ==
    /\ Len(revision_history) <= max_iterations
    /\ (InCycle /\ mode = "fresh") => revision_num <= max_iterations - 1
    /\ (InCycle /\ revision_num > max_iterations - 1) =>
          /\ mode = "resume"
          /\ revision_num = start_version
          /\ revision_history = <<>>

\* a run is under way / the run has ended, with a result or with the error
\* that reached the caller
Running == pc \notin {"idle", "done", "raised"}
Ended == pc \in {"done", "raised"}

\* C35: every run, fresh or resumed, that has started ends: it returns a
\* WorkflowResult through the finalization or the error of a call reaches
\* the caller (a new run starts only when the one before has ended, so the
\* end that follows a running state is the end of that run); the steps of
\* the caller that follow the return end as well.
C35_EveryRunEnds ==
    /\ Running ~> Ended
    /\ (pc = "done" /\ ~published) ~> CallerEnded
    /\ [](pc = "done" => (result # None /\ final_file # None /\ raised = None))
    /\ [](pc = "raised" => raised # None)

\* a resumed run has gone through the resume rewrite and a review cycle that
\* failed the gate, and has returned its result
C35_Witness ==
    /\ mode = "resume" /\ runs = 2 /\ pc = "done"
    /\ result # None /\ ~result[1].ready_to_publish
    /\ rewrites >= 1 /\ Len(revision_history) >= 1

\* the verdict of a role the resume rewrite works from: the file of the
\* version resumed from, or the empty verdict
VerdictFor(files, empty) ==
    IF start_version \in DOMAIN files THEN files[start_version] ELSE empty
\* some, but not all, verdict files of version r were written to their end
PartlyWritten(r) ==
    LET Written(files) == (r \in DOMAIN files) /\ Decodes(files[r])
        roles == {Written(editor_files), Written(fact_check_files),
                  Written(authenticity_files)}
    IN  roles = {TRUE, FALSE}
\* the run was ended by an error in the middle of the review cycle of
\* revision_num: some, but not all, verdict files of that revision were
\* written
AbortedInCycle ==
    /\ pc = "raised"
    /\ raised[1].role \in {"editor", "fact_checker", "authenticity", "editor_feedback_v",
                           "fact_check_v", "authenticity_check_v"}
    /\ PartlyWritten(revision_num)
\* the cache file of the topic is absent or complete
CacheDecodes ==
    LET file == cache_file(DirectoryTopic)
    IN  file \in DOMAIN research_cache => research_cache[file].complete

\* C36 (as claimed): when an error has ended a run in the middle of the
\* review cycle of revision r >= 1, some but not all verdict files of r
\* being there, a resume from article_v{r}.md succeeds: it starts the resume
\* rewrite; that rewrite is given, for each role, the verdict file of r or
\* the empty verdict when the role has none (never a file of another
\* revision), saves version r + 1 and hands over to the review of revision
\* r + 1.
C36_ResumeAfterAbortedCycle ==
    [][/\ (/\ ResumeCalled /\ AbortedInCycle /\ revision_num >= 1 /\ CacheDecodes
           /\ resume_path' = Some(ArticlePath(revision_num))
           /\ revision_num \in DOMAIN article_files) =>
            /\ pc' = "resume_rewrite"
            /\ current_article' = article_files[start_version']
       /\ ResumeRewrites =>
            /\ combined_feedback'[1].editor = VerdictFor(editor_files, NoEditor)
            /\ combined_feedback'[1].fact_checker = VerdictFor(fact_check_files, NoFactCheck)
            /\ combined_feedback'[1].authenticity =
                  VerdictFor(authenticity_files, NoAuthenticity)
            /\ combined_feedback'[1].combined_issues =
                  _combine_issues(VerdictFor(editor_files, NoEditor),
                                  VerdictFor(fact_check_files, NoFactCheck),
                                  VerdictFor(authenticity_files, NoAuthenticity))
            /\ article_files'[start_version + 1] = current_article'
            /\ revision_num' = start_version + 1
            /\ pc' = "editor"]_vars

\* what the code does: the resume succeeds as described when every verdict
\* file of r that is there is complete, and ends in JSONDecodeError, with
\* nothing done, when one of them was cut short by the write that failed
ResumeAfterAbortedCycleDecodes ==
    [][(/\ ResumeCalled /\ AbortedInCycle /\ revision_num >= 1 /\ CacheDecodes
        /\ resume_path' = Some(ArticlePath(revision_num))
        /\ revision_num \in DOMAIN article_files) =>
            IF VerdictsDecode(revision_num)
            THEN pc' = "resume_rewrite" /\ current_article' = article_files[start_version']
            ELSE /\ pc' = "raised"
                 /\ raised'[1].err.msg = "JSONDecodeError"
                 /\ UNCHANGED <<dirVars, next_text, runVars>>]_vars

\* a state the resume reaches when the files are complete: the cycle of
\* revision r >= 1 was aborted after the editor's verdict was
\* saved; the resume from version r has rewritten with that verdict and empty
\* fact-check and authenticity verdicts, although the fact-check of r - 1 is
\* on disk, and reviews revision r + 1
C36_Witness ==
    /\ mode = "resume" /\ rewrites = 1 /\ pc = "editor"
    /\ revision_num >= 2 /\ revision_history = <<>>
    /\ (revision_num - 1) \in DOMAIN editor_files
    /\ (revision_num - 1) \notin DOMAIN fact_check_files
    /\ (revision_num - 1) \notin DOMAIN authenticity_files
    /\ (revision_num - 2) \in DOMAIN fact_check_files
    /\ combined_feedback[1].editor = editor_files[revision_num - 1]
    /\ combined_feedback[1].fact_checker = NoFactCheck
    /\ combined_feedback[1].authenticity = NoAuthenticity
    /\ revision_num \in DOMAIN article_files

\* the run has findings of targeted research in its pool
HasTargetedFindings == TargetedInPool # {}

\* C37 (as claimed): the findings targeted research added to the pool of a
\* run are in the pool a later resume on the same directory, for the same
\* topic, loads from the research cache.
C37_TargetedFindingsAreDurable ==
    [][ResumeStarts =>
          \A k \in TargetedInPool :
              \E j \in 1..Len(research_findings') :
                  research_findings'[j] = research_findings[k]]_vars

\* what the code does: a resume loads the findings research() cached for the
\* topic, which no step of the workflow writes
ResumeLoadsCachedResearchOnly ==
    [][ResumeStarts =>
          research_findings' =
              CachedFindings(research_cache, cache_file(DirectoryTopic))]_vars

\* C38 (as claimed): the url of every finding of targeted research is the
\* address of the search record it was made from.
C38_FindingCarriesRecordUrl ==
    TargetedMade =>
        LET answers  == lookup[1].answers
            findings == lookup_outcome[1].value
        IN  \A k \in 1..Len(answers) :
               answers[k].ok =>
                  \A j \in 1..answers[k].records :
                     findings[RecordsBefore(answers, k) + j].url
                        = SearchRecords(answers[k].records)[j].source

\* what the code does: the finding reads the key 'url', which no record of
\* search_internet has, so its url is the empty string
FindingUrlIsEmpty ==
    TargetedMade =>
        \A f \in 1..Len(lookup_outcome[1].value) :
            lookup_outcome[1].value[f].url = EmptyText

\* a directory was created for a topic and the topic rebuilt from its name
TopicRebuilt == lookup # None /\ lookup[1].fn = "resume_topic"
HasChar(text, c) == \E i \in 1..Len(text) : text[i] = c

\* C39 (as claimed): for every topic of words separated by single spaces,
\* the words possibly containing underscores, the topic a resumed run rebuilds
\* from the directory name, in resume_from_version and in the formatting step
\* of the resume script, is the topic of the run that created the directory.
C39_TopicRoundTrip ==
    TopicRebuilt =>
        /\ lookup_outcome[1].value.workflow = lookup[1].topic
        /\ lookup_outcome[1].value.script = lookup[1].topic

\* what the code does: resume_from_version rebuilds the topic with every
\* underscore turned into a space, so exactly the topics without underscore
\* come back; the script keeps what precedes the first underscore of the
\* directory name, so exactly the topics of one word without underscore come
\* back
TopicComesBackWithoutUnderscores ==
    TopicRebuilt =>
        LET topic == lookup[1].topic
            out   == lookup_outcome[1].value
        IN  /\ out.workflow = replace(topic, "_", " ")
            /\ (out.workflow = topic) <=> ~HasChar(topic, "_")
            /\ (out.script = topic) <=> (~HasChar(topic, "_") /\ ~HasChar(topic, " "))

====
